---- MODULE Spec2Model ----
(***************************************************************************)
(* Model of the EPUB translation pipeline:                                 *)
(*   - CheckpointManager and EPUBTranslator.translate_epub                 *)
(*     (src/epub_handler.py), specification Spec;                          *)
(*   - DeepLTranslator._translate_chunk_with_verification and              *)
(*     wait_for_response (src/deepl_translator.py), specification          *)
(*     SpecClient;                                                         *)
(*   - TranslatorBase.extract_whitespace_info and reconstruct_whitespace   *)
(*     (src/translator_base.py), specification SpecWhitespace;             *)
(*   - EPUBTranslator.intelligent_chunk_text on its own, specification     *)
(*     SpecChunker, and the two leaf replacement loops of epub_handler.py, *)
(*     specification SpecLeaf;                                             *)
(*   - SpecClientFair, SpecClient with a fairly scheduled request.         *)
(* Texts are sequences of one-character strings, so that joining,          *)
(* splitting, stripping and searching are computed as Python computes      *)
(* them.  Positional indices (idx, j, new_idx) are 0-based as in the       *)
(* source; sequences are 1-based, hence the "+ 1" at every access.         *)
(***************************************************************************)
EXTENDS Integers, Sequences, FiniteSets, TLC

(***************************************************************************)
(* Bounds of the model.                                                    *)
(***************************************************************************)
MaxRuns == 2
MaxWriteFailures == 1

(***************************************************************************)
(* String constants of the program.                                        *)
(***************************************************************************)
TEXT_DELIMITER ==
    <<"|","|","|","-","-","-","|","|","|">>
WATERMARK ==
    <<"T","r","a","n","s","l","a","t","e","d"," ","w","i","t","h"," ","D","e","e","p","L",".","c","o","m"," ","(","f","r","e","e"," ","v","e","r","s","i","o","n",")">>
FAILED_PREFIX ==
    <<"[","[","T","R","A","N","S","L","A","T","I","O","N"," ","F","A","I","L","E","D">>
FAILED_HEAD ==
    <<"[","[","T","R","A","N","S","L","A","T","I","O","N"," ","F","A","I","L","E","D",":"," ">>
FAILED_TAIL ==
    <<".",".",".","]","]">>
USAGE_LIMIT_MARKER ==
    <<"[","[","T","R","A","N","S","L","A","T","I","O","N"," ","F","A","I","L","E","D",":"," ","U","S","A","G","E"," ","L","I","M","I","T"," ","R","E","A","C","H","E","D","]","]">>
STOPPED_MARKER ==
    <<"[","[","T","R","A","N","S","L","A","T","I","O","N","_","S","T","O","P","P","E","D","]","]">>
Whitespace == {" ", "\n", "\t"}
\* the characters of the regular expression ^\s*["“‘] (the curly quotes are
\* written as the tokens ldquo and lsquo)
QuoteChars == {"\"", "ldquo", "lsquo"}
FailedSliceLen == 50

(***************************************************************************)
(* Python string operations on texts.                                      *)
(***************************************************************************)
SetMin(S) == CHOOSE x \in S : \A y \in S : x <= y
SetMax(S) == CHOOSE x \in S : \A y \in S : x >= y

\* s[k-1:].startswith(pat), k 1-based
StartsWithAt(s, pat, k) ==
    /\ k + Len(pat) - 1 <= Len(s)
    /\ \A m \in 1..Len(pat) : s[k + m - 1] = pat[m]

\* str.find: the first position >= from where pat occurs, 0 when none
find(s, pat, from) ==
    LET ks == {k \in from..(Len(s) - Len(pat) + 1) : StartsWithAt(s, pat, k)}
    IN IF ks = {} THEN 0 ELSE SetMin(ks)

\* pat in s
contains(s, pat) == find(s, pat, 1) # 0

\* s.split(sep): leftmost non-overlapping occurrences of sep
RECURSIVE split(_, _)
split(s, sep) ==
    LET k == find(s, sep, 1)
    IN IF k = 0 THEN <<s>>
       ELSE <<SubSeq(s, 1, k - 1)>> \o split(SubSeq(s, k + Len(sep), Len(s)), sep)

\* sep.join(list)
RECURSIVE join(_, _)
join(sep, list) ==
    IF list = <<>> THEN <<>>
    ELSE IF Len(list) = 1 THEN list[1]
    ELSE list[1] \o sep \o join(sep, Tail(list))

\* s.strip()
strip(s) ==
    LET ks == {k \in 1..Len(s) : s[k] \notin Whitespace}
    IN IF ks = {} THEN <<>> ELSE SubSeq(s, SetMin(ks), SetMax(ks))

\* re.sub(pat, '', s) for a literal pattern pat
RECURSIVE concat(_)
concat(list) == IF list = <<>> THEN <<>> ELSE list[1] \o concat(Tail(list))
re_sub_remove(pat, s) == concat(split(s, pat))

\* s[:n]
Slice(s, n) == SubSeq(s, 1, IF Len(s) < n THEN Len(s) ELSE n)

(***************************************************************************)
(* EPUBTranslator.intelligent_chunk_text.  ChunkLoop is the for loop over  *)
(* text_list with its three accumulators; ChunkGroups returns the lists    *)
(* that are joined into the chunks.                                        *)
(***************************************************************************)
\* mutant: the delimiter is not counted
ChunkStep_NoDelimiter(acc, text, max_chars) ==
    IF /\ acc.current_len + Len(text) > max_chars
       /\ acc.current_chunk_list # <<>>
    THEN [groups |-> Append(acc.groups, acc.current_chunk_list),
          current_chunk_list |-> <<text>>,
          current_len |-> Len(text)]
    ELSE [groups |-> acc.groups,
          current_chunk_list |-> Append(acc.current_chunk_list, text),
          current_len |-> acc.current_len + Len(text)]

ChunkStep(acc, text, max_chars) ==
    IF /\ acc.current_len + Len(text) + Len(TEXT_DELIMITER) > max_chars
       /\ acc.current_chunk_list # <<>>
    THEN [groups |-> Append(acc.groups, acc.current_chunk_list),
          current_chunk_list |-> <<text>>,
          current_len |-> Len(text)]
    ELSE [groups |-> acc.groups,
          current_chunk_list |-> Append(acc.current_chunk_list, text),
          current_len |-> acc.current_len + Len(text) + Len(TEXT_DELIMITER)]

RECURSIVE ChunkLoop(_, _, _)
ChunkLoop(text_list, acc, max_chars) ==
    IF text_list = <<>> THEN acc
    ELSE ChunkLoop(Tail(text_list), ChunkStep(acc, Head(text_list), max_chars), max_chars)

\* mutant: the batch in progress at the end of the loop is not returned
ChunkGroups_DropLast(text_list, max_chars) ==
    ChunkLoop(text_list,
              [groups |-> <<>>, current_chunk_list |-> <<>>, current_len |-> 0],
              max_chars).groups

ChunkGroups(text_list, max_chars) ==
    LET acc == ChunkLoop(text_list,
                         [groups |-> <<>>, current_chunk_list |-> <<>>, current_len |-> 0],
                         max_chars)
    IN IF acc.current_chunk_list # <<>>
       THEN Append(acc.groups, acc.current_chunk_list)
       ELSE acc.groups

intelligent_chunk_text(text_list, max_chars) ==
    IF text_list = <<>> THEN <<>>
    ELSE LET groups == ChunkGroups(text_list, max_chars)
         IN [g \in 1..Len(groups) |-> join(TEXT_DELIMITER, groups[g])]

(***************************************************************************)
(* The document (external Document Model).  A content item is the ordered  *)
(* list of the text leaves of its body; a leaf has its raw string and the  *)
(* name of its parent element.                                             *)
(***************************************************************************)
Hello ==
    <<"H","e","l","l","o">>
world ==
    <<"w","o","r","l","d">>
foo ==
    <<"f","o","o">>
Bonjour ==
    <<"B","o","n","j","o","u","r">>
monde ==
    <<"m","o","n","d","e">>
truc ==
    <<"t","r","u","c">>
HelloChunk ==
    <<"H","e","l","l","o","|","|","|","-","-","-","|","|","|","w","o","r","l","d","|","|","|","-","-","-","|","|","|","f","o","o">>
BonjourChunk ==
    <<"B","o","n","j","o","u","r","|","|","|","-","-","-","|","|","|","m","o","n","d","e","|","|","|","-","-","-","|","|","|","t","r","u","c">>

Leaf(raw, parent) == [raw |-> raw, parent |-> parent]

ItemScenario == <<Leaf(Hello, "p"), Leaf(world, "p"), Leaf(foo, "p")>>
ItemABC == <<Leaf(<<" ", "a">>, "p"), Leaf(<<"b">>, "em"), Leaf(<<" ">>, "p"), Leaf(<<"c">>, "p")>>
ItemOne == <<Leaf(<<"d">>, "p")>>
ItemBlank == <<Leaf(<<" ">>, "p"), Leaf(<<"s">>, "script")>>
ItemDelim == <<Leaf(<<"x">> \o TEXT_DELIMITER \o <<"y">>, "p")>>

DocScenario == <<ItemScenario>>
DocTwo == <<ItemABC, ItemOne>>
DocEdge == <<ItemBlank, ItemDelim>>
\* The runs explored: a document and the translator's max_input_length.
\* With 12 every segment of DocScenario is a chunk of its own, with 20 the
\* first item of DocTwo is batched as [a, b], [c], with 1000 an item is one
\* chunk.
Inputs ==
    {<<DocScenario, 1000>>, <<DocScenario, 12>>, <<DocTwo, 20>>, <<DocEdge, 1000>>}

(***************************************************************************)
(* The translation service (external): what the output surface may show    *)
(* for a payload once it has stabilised.  Tr is the translation of one     *)
(* segment; the service may keep the delimiters, append its watermark,     *)
(* merge two parts (a dropped delimiter) or add a part.                    *)
(***************************************************************************)
Tr(s) ==
    IF s = Hello THEN Bonjour
    ELSE IF s = world THEN monde
    ELSE IF s = foo THEN truc
    ELSE IF s = <<"c">> THEN <<"\"", "C">>
    ELSE <<"T">> \o s

ServiceOutputs(payload) ==
    LET parts == split(payload, TEXT_DELIMITER)
        tr == [k \in 1..Len(parts) |-> Tr(parts[k])]
        aligned == join(TEXT_DELIMITER, tr)
    IN {aligned,
        aligned \o <<"\n">> \o WATERMARK,
        aligned \o TEXT_DELIMITER \o <<"z">>}
       \cup (IF Len(tr) >= 2
             THEN {join(TEXT_DELIMITER, <<tr[1] \o <<" ">> \o tr[2]>> \o SubSeq(tr, 3, Len(tr)))}
             ELSE {})

(***************************************************************************)
(* What one call of _translate_chunk_with_verification can return to       *)
(* translate_epub (the request itself is the specification SpecClient).    *)
(***************************************************************************)
\* mutant: the chunk is written whole
Payload_Unclipped(chunk, max_len) == chunk

\* line 327
Payload(chunk, max_len) == IF Len(chunk) > max_len THEN Slice(chunk, max_len) ELSE chunk

\* lines 395 and 397
FailedMarker(payload) == FAILED_HEAD \o Slice(payload, FailedSliceLen) \o FAILED_TAIL

\* lines 339-397: the exception of the last attempt when all attempts have
\* failed (ensure_login returned False, or a failure of the session)
LastErrors(kind) ==
    IF kind = "failed"
    THEN {"Login failed.", "Received an empty or invalid translation."}
    ELSE {"none"}

ClientReturns(chunk, max_len, stop) ==
    IF strip(chunk) = <<>> THEN {[kind |-> "blank", text |-> <<>>]}
    ELSE LET payload == Payload(chunk, max_len)
         IN {[kind |-> "success", text |-> t] : t \in ServiceOutputs(payload)}
            \cup {[kind |-> "failed", text |-> FailedMarker(payload)]}
            \cup {[kind |-> "quota", text |-> USAGE_LIMIT_MARKER]}
            \cup (IF stop THEN {[kind |-> "stopped", text |-> STOPPED_MARKER]} ELSE {})

(***************************************************************************)
(* Checkpoint store.  checkpoint_data[checkpoint_key][item_id] is modelled *)
(* per content item (0-based position); an item without an entry is        *)
(* EmptyRecord.  A line key f"{chunk_key}_line{line_index}" with           *)
(* chunk_key = f"chunk{j}" is the pair <<j, line_index>>: the format is    *)
(* injective on pairs of integers.  A line value is json.dumps of          *)
(* {'text', 'is_dialogue'}, read back with json.loads: a record.           *)
(***************************************************************************)
EmptyRecord == [lines |-> <<>>, completed |-> FALSE]
EmptyStore(d) == [it \in 0..(Len(d) - 1) |-> EmptyRecord]

LineKey(chunk_no, line_index) == <<chunk_no, line_index>>

\* line 198 and line 239: the key Diff and Reconstruct look up
LookupKey(idx) == LineKey(0, idx)

\* mutant: the chunk numbered from 1, as in the log message of line 214
SaveKey_OneBased(loop_j, original_idx) == LineKey(loop_j + 1, original_idx)

\* line 230: the key save_checkpoint is called with
SaveKey(loop_j, original_idx) == LineKey(loop_j, original_idx)

\* line 228
IsDialogue(translated_text) ==
    LET s == strip(translated_text) IN s # <<>> /\ s[1] \in QuoteChars

\* lines 53-56: the in-memory update of save_checkpoint
WithLine(data, it, key, line_data) ==
    [data EXCEPT ![it].lines = (key :> line_data) @@ @]

\* line 68: the in-memory update of set_completed
WithCompleted(data, it) == [data EXCEPT ![it].completed = TRUE]

\* mutant: the flag read under a key that is never written
IsCompleted_WrongKey(item_data) == FALSE

\* line 170: item_data and item_data.get('completed', False)
IsCompleted(item_data) == item_data.completed

\* lines 181-184: the positions (1-based, in the item) of the translatable
\* leaves, and the leaves themselves
IsTextNode(leaf) ==
    leaf.parent \notin {"script", "style", "title"} /\ strip(leaf.raw) # <<>>

RECURSIVE TextPositionsFrom(_, _)
TextPositionsFrom(item, p) ==
    IF p > Len(item) THEN <<>>
    ELSE (IF IsTextNode(item[p]) THEN <<p>> ELSE <<>>) \o TextPositionsFrom(item, p + 1)

TextPositions(item) == TextPositionsFrom(item, 1)

original_text_nodes(item) ==
    LET pos == TextPositions(item) IN [k \in 1..Len(pos) |-> item[pos[k]]]

\* lines 197-202: the 0-based original indices without a record, in order
RECURSIVE MissingFrom(_, _, _)
MissingFrom(checkpoint_lines, idx, n) ==
    IF idx >= n THEN <<>>
    ELSE (IF LookupKey(idx) \notin DOMAIN checkpoint_lines THEN <<idx>> ELSE <<>>)
         \o MissingFrom(checkpoint_lines, idx + 1, n)

\* mutant: surplus results accepted
AlignmentOK_AtLeast(newly, texts) == Len(newly) >= Len(texts)

\* line 225
AlignmentOK(newly, texts) == Len(newly) = Len(texts)

\* lines 217-222: what one returned chunk adds to newly_translated_lines
ChunkResults(returned, chunk) ==
    LET cleaned == strip(re_sub_remove(WATERMARK, returned))
        translated_chunk == IF contains(cleaned, FAILED_PREFIX) THEN chunk ELSE cleaned
    IN split(translated_chunk, TEXT_DELIMITER)

\* lines 242-257: the node that replaces a leaf with a record
ReplacedLeaf(leaf, line_data) ==
    LET leading_space == IF Len(leaf.raw) > 0 /\ leaf.raw[1] = " " THEN <<" ">> ELSE <<>>
        trailing_space == IF Len(leaf.raw) > 0 /\ leaf.raw[Len(leaf.raw)] = " " THEN <<" ">> ELSE <<>>
        final_text == leading_space \o line_data.text \o trailing_space
    IN IF line_data.is_dialogue /\ leaf.parent = "p"
       THEN Leaf(final_text, "em")
       ELSE Leaf(final_text, leaf.parent)

\* lines 236-257: the item's leaves after the replacement loop
Reconstructed(item, final_checkpoint_lines) ==
    LET pos == TextPositions(item)
    IN [p \in 1..Len(item) |->
          IF \E k \in 1..Len(pos) :
                 pos[k] = p /\ LookupKey(k - 1) \in DOMAIN final_checkpoint_lines
          THEN LET k == CHOOSE k \in 1..Len(pos) : pos[k] = p
               IN ReplacedLeaf(item[p], final_checkpoint_lines[LookupKey(k - 1)])
          ELSE item[p]]

\* the original indices of the segments joined into chunk j (0-based), for
\* the record of what was submitted
RECURSIVE GroupStart(_, _)
GroupStart(groups, g) == IF g <= 1 THEN 0 ELSE Len(groups[g - 1]) + GroupStart(groups, g - 1)

ChunkIndices(groups, loop_j, indices_map) ==
    {indices_map[k] : k \in (GroupStart(groups, loop_j + 1) + 1)..
                             (GroupStart(groups, loop_j + 1) + Len(groups[loop_j + 1]))}

(***************************************************************************)
(* State.                                                                  *)
(***************************************************************************)
VARIABLES
    doc,                      \* the loaded book's content items (the input EPUB)
    max_input_length,         \* translator.max_input_length
    cp_file,                  \* the checkpoint file's parsed content
    file_corrupt,             \* the checkpoint file is truncated (unparsable)
    run,                      \* number of the current run of translate_epub
    pc,                       \* position of translate_epub
    i,                        \* line 160: index of the current item
    stop_flag,                \* what stop_flag() returns
    checkpoint_data,          \* CheckpointManager.checkpoint_data
    book,                     \* self.book: the items' leaves, as reconstructed
    texts_to_translate,       \* line 193
    untranslated_indices_map, \* line 195
    text_chunks,              \* line 207
    j,                        \* line 212
    newly_translated_lines,   \* line 210
    new_idx,                  \* line 226
    result,                   \* the value translate_epub returned
    progress,                 \* the values handed to progress_callback
    temp_epub,                \* what the run wrote with _save_intermediate_epub
    output_epub,              \* what the run wrote with _save_final_epub
    loaded,                   \* history: the store the run started from
    calls,                    \* history: the client calls of the run, in order
    align_failed,             \* history: items skipped at line 233 in the run
    write_failures            \* history: failed checkpoint writes so far

orchVars ==
    <<doc, max_input_length, cp_file, file_corrupt, run, pc, i, stop_flag,
      checkpoint_data, book, texts_to_translate, untranslated_indices_map,
      text_chunks, j, newly_translated_lines, new_idx, result, progress,
      temp_epub, output_epub, loaded, calls, align_failed, write_failures>>

itemLocals ==
    <<texts_to_translate, untranslated_indices_map, text_chunks, j,
      newly_translated_lines, new_idx>>

inputVars == <<doc, max_input_length>>
fileVars == <<cp_file, file_corrupt, write_failures>>
historyVars == <<loaded, calls, align_failed>>

(***************************************************************************)
(* State of one DeepLTranslator and of the request it is serving           *)
(* (_translate_chunk_with_verification and wait_for_response).  Time is    *)
(* counted in whole seconds: elapsed is time.time() - start_time of        *)
(* wait_for_response, since_last_used is time.time() - last_used_time,     *)
(* kept up to cooldown (beyond it the value makes no difference).          *)
(***************************************************************************)
VARIABLES
    req_chunk,                \* the chunk argument of _translate_chunk_with_verification
    cpc,                      \* position of the request
    attempt,                  \* the loop variable of line 330
    processing_lock,          \* "free" or "held"
    is_logged_in,
    since_last_used,          \* time.time() - self.last_used_time, capped
    written,                  \* the text last written to the source input
    elapsed,                  \* time.time() - start_time in wait_for_response
    last_text,
    stable_cycles,
    response,                 \* translated_text of line 363: what wait_for_response returned
    error,                    \* the exception being handled (lines 377-397)
    outcome,                  \* the value returned to the caller
    \* history of the current wait_for_response call
    prev_sample,              \* the sample of the previous cycle
    last_nonempty,            \* the most recent sample that was not empty
    held_run,                 \* number of trailing cycles that sampled the
                              \* same non-empty text
    changes,                  \* number of samples before that run when every
                              \* one of them was a new non-empty text, else -1
    samples_after_stop,       \* samples taken while the stop flag was set
    stop_during_poll,         \* the flag was set while the wait was polling
    wait_exit,                \* how the wait ended
    \* history of the request
    submissions,              \* payloads written (line 359 returned True)
    resets,                   \* session resets done (lines 391-392)
    \* a second thread calling the same translator
    other_pc

waitVars == <<elapsed, last_text, stable_cycles>>
waitHistory == <<prev_sample, last_nonempty, held_run, changes, samples_after_stop,
                 stop_during_poll, wait_exit>>
clientVars ==
    <<req_chunk, cpc, attempt, processing_lock, is_logged_in, since_last_used,
      written, waitVars, response, error, outcome, waitHistory,
      submissions, resets, other_pc>>

(***************************************************************************)
(* State of one use of TranslatorBase.extract_whitespace_info followed by  *)
(* reconstruct_whitespace (src/translator_base.py).  The pipeline never    *)
(* calls the two methods; they are exercised on their own by the           *)
(* specification SpecWhitespace.                                           *)
(***************************************************************************)
VARIABLES
    ws_text,                  \* the text argument of extract_whitespace_info
    ws_translated,            \* the translation of ws_text, as the service gave it
    ws_pc,                    \* "idle", "start", "extracted" or "reconstructed"
    whitespace_info,          \* what extract_whitespace_info returned
    ws_final_text             \* what reconstruct_whitespace returned

whitespaceVars == <<ws_text, ws_translated, ws_pc, whitespace_info, ws_final_text>>

\* no use of the whitespace functions is modelled
WhitespaceIdle ==
    /\ ws_text = <<>>
    /\ ws_translated = <<>>
    /\ ws_pc = "idle"
    /\ whitespace_info = <<>>
    /\ ws_final_text = <<>>

(***************************************************************************)
(* State of one call of a function that is exercised on its own            *)
(* (intelligent_chunk_text in SpecChunker, the two leaf replacements in    *)
(* SpecLeaf): its arguments, its position and the value it returned.       *)
(***************************************************************************)
VARIABLES
    call_args,
    call_pc,
    call_value

callVars == <<call_args, call_pc, call_value>>

\* no such call is modelled
CallIdle ==
    /\ call_args = <<>>
    /\ call_pc = "idle"
    /\ call_value = <<>>

total_sections == Len(doc)
NoFile == <<>>

ClearItemLocals ==
    /\ texts_to_translate' = <<>>
    /\ untranslated_indices_map' = <<>>
    /\ text_chunks' = <<>>
    /\ j' = 0
    /\ newly_translated_lines' = <<>>
    /\ new_idx' = 0

InitOrch ==
    /\ \E input \in Inputs :
          /\ doc = input[1]
          /\ max_input_length = input[2]
    /\ cp_file = EmptyStore(doc)
    /\ file_corrupt = FALSE
    /\ run = 1
    /\ pc = "start"
    /\ i = 0
    /\ stop_flag = FALSE
    /\ checkpoint_data = EmptyStore(doc)
    /\ book = doc
    /\ texts_to_translate = <<>>
    /\ untranslated_indices_map = <<>>
    /\ text_chunks = <<>>
    /\ j = 0
    /\ newly_translated_lines = <<>>
    /\ new_idx = 0
    /\ result = "running"
    /\ progress = <<>>
    /\ temp_epub = NoFile
    /\ output_epub = NoFile
    /\ loaded = EmptyStore(doc)
    /\ calls = <<>>
    /\ align_failed = {}
    /\ write_failures = 0

(***************************************************************************)
(* CheckpointManager: the file write that ends save_checkpoint and         *)
(* set_completed (lines 59-63, 69-73).  The whole store is rewritten; a    *)
(* failed write is logged and leaves the file as it was.                   *)
(***************************************************************************)
WriteOutcomes == IF write_failures < MaxWriteFailures THEN {TRUE, FALSE} ELSE {TRUE}

DumpToFile(data, ok) ==
    IF ok
    THEN /\ cp_file' = data
         /\ file_corrupt' = FALSE
         /\ write_failures' = write_failures
    ELSE /\ cp_file' = cp_file
         /\ file_corrupt' = file_corrupt
         /\ write_failures' = write_failures + 1

\* lines 271-272: an exception ends the run; translate_epub returns None
ReturnNone ==
    /\ pc' = "done"
    /\ result' = "None"

\* mutant: the share of the items still to do
ProgressValue_Remaining(item_index) ==
    [num |-> (total_sections - (item_index + 1)) * 100, den |-> total_sections]

\* lines 172 and 265: (i + 1) / self.total_sections * 100, as a fraction
ProgressValue(item_index) == [num |-> (item_index + 1) * 100, den |-> total_sections]

(***************************************************************************)
(* EPUBTranslator.translate_epub, one action per step.                     *)
(***************************************************************************)
\* lines 150-158, set_languages succeeded
Begin ==
    /\ pc = "start"
    /\ pc' = "item_loop"
    /\ i' = 0
    /\ UNCHANGED <<callVars, whitespaceVars, clientVars, inputVars, fileVars, run, stop_flag, checkpoint_data, book,
                   itemLocals, result, progress, temp_epub, output_epub, historyVars>>

\* lines 156-158, set_languages returned False: the exception ends the run
BeginFails ==
    /\ pc = "start"
    /\ ReturnNone
    /\ UNCHANGED <<callVars, whitespaceVars, clientVars, inputVars, fileVars, run, i, stop_flag, checkpoint_data, book,
                   itemLocals, progress, temp_epub, output_epub, historyVars>>

\* line 161
ItemStopped ==
    /\ pc = "item_loop"
    /\ i < Len(doc)
    /\ stop_flag
    /\ pc' = "done"
    /\ result' = "False"
    /\ UNCHANGED <<callVars, whitespaceVars, clientVars, inputVars, fileVars, run, i, stop_flag, checkpoint_data, book,
                   itemLocals, progress, temp_epub, output_epub, historyVars>>

\* lines 163-173
ItemSkipCompleted ==
    /\ pc = "item_loop"
    /\ i < Len(doc)
    /\ ~stop_flag
    /\ IsCompleted(checkpoint_data[i])
    /\ progress' = Append(progress, ProgressValue(i))
    /\ i' = i + 1
    /\ UNCHANGED <<callVars, whitespaceVars, clientVars, inputVars, fileVars, run, pc, stop_flag, checkpoint_data, book,
                   itemLocals, result, temp_epub, output_epub, historyVars>>

\* lines 175-189: no translatable text
ItemNoText ==
    /\ pc = "item_loop"
    /\ i < Len(doc)
    /\ ~stop_flag
    /\ ~IsCompleted(checkpoint_data[i])
    /\ original_text_nodes(book[i + 1]) = <<>>
    /\ checkpoint_data' = WithCompleted(checkpoint_data, i)
    /\ \E ok \in WriteOutcomes : DumpToFile(checkpoint_data', ok)
    /\ i' = i + 1
    /\ UNCHANGED <<callVars, whitespaceVars, clientVars, inputVars, run, pc, stop_flag, book, itemLocals, result,
                   progress, temp_epub, output_epub, historyVars>>

\* lines 175-210: extract, diff against the checkpoint, batch
ItemDiff ==
    /\ pc = "item_loop"
    /\ i < Len(doc)
    /\ ~stop_flag
    /\ ~IsCompleted(checkpoint_data[i])
    /\ LET nodes == original_text_nodes(book[i + 1])
           missing == MissingFrom(checkpoint_data[i].lines, 0, Len(nodes))
           texts == [k \in 1..Len(missing) |-> strip(nodes[missing[k] + 1].raw)]
       IN /\ nodes # <<>>
          /\ texts_to_translate' = texts
          /\ untranslated_indices_map' = missing
          /\ text_chunks' = intelligent_chunk_text(texts, max_input_length)
          /\ pc' = IF texts # <<>> THEN "chunk_loop" ELSE "reconstruct"
    /\ j' = 0
    /\ newly_translated_lines' = <<>>
    /\ new_idx' = 0
    /\ UNCHANGED <<callVars, whitespaceVars, clientVars, inputVars, fileVars, run, i, stop_flag, checkpoint_data, book,
                   result, progress, temp_epub, output_epub, historyVars>>

\* line 213: break
ChunkBreak ==
    /\ pc = "chunk_loop"
    /\ stop_flag
    /\ pc' = "align"
    /\ UNCHANGED <<callVars, whitespaceVars, clientVars, inputVars, fileVars, run, i, stop_flag, checkpoint_data, book,
                   itemLocals, result, progress, temp_epub, output_epub, historyVars>>

\* lines 213-216: the call of translator._translate_chunk_with_verification
ChunkCall ==
    /\ pc = "chunk_loop"
    /\ ~stop_flag
    /\ pc' = "in_client"
    /\ calls' = Append(calls,
                       [item |-> i, chunk_no |-> j, kind |-> "pending", cause |-> "none",
                        parts |-> 0,
                        idxs |-> ChunkIndices(ChunkGroups(texts_to_translate, max_input_length),
                                              j, untranslated_indices_map)])
    /\ UNCHANGED <<callVars, whitespaceVars, clientVars, inputVars, fileVars, run, i, stop_flag, checkpoint_data, book,
                   itemLocals, result, progress, temp_epub, output_epub, loaded,
                   align_failed>>

\* lines 216-222: the call returns; the for loop moves on (j keeps the last
\* index when the loop is exhausted)
ClientReturn ==
    /\ pc = "in_client"
    /\ \E r \in ClientReturns(text_chunks[j + 1], max_input_length, stop_flag) :
          /\ newly_translated_lines' =
                 newly_translated_lines \o ChunkResults(r.text, text_chunks[j + 1])
          /\ \E cause \in LastErrors(r.kind) :
                calls' = [calls EXCEPT ![Len(calls)].kind = r.kind,
                                       ![Len(calls)].cause = cause,
                                       ![Len(calls)].parts =
                                           Len(ChunkResults(r.text, text_chunks[j + 1]))]
    /\ IF j + 1 < Len(text_chunks)
       THEN /\ j' = j + 1
            /\ pc' = "chunk_loop"
       ELSE /\ j' = j
            /\ pc' = "align"
    /\ UNCHANGED <<callVars, whitespaceVars, clientVars, inputVars, fileVars, run, i, stop_flag, checkpoint_data, book,
                   texts_to_translate, untranslated_indices_map, text_chunks, new_idx,
                   result, progress, temp_epub, output_epub, loaded, align_failed>>

\* lines 388-392 of the client: human_delay or driver.refresh raises inside the
\* except handler; the exception leaves the call and ends the run (271-272)
ClientRaises ==
    /\ pc = "in_client"
    /\ calls' = [calls EXCEPT ![Len(calls)].kind = "raised"]
    /\ ReturnNone
    /\ UNCHANGED <<callVars, whitespaceVars, clientVars, inputVars, fileVars, run, i, stop_flag, checkpoint_data, book,
                   itemLocals, progress, temp_epub, output_epub, loaded, align_failed>>

\* mutant: after the alignment check the loop moves to the next item
AlignPass_NextItem ==
    /\ pc = "align"
    /\ AlignmentOK(newly_translated_lines, texts_to_translate)
    /\ i' = i + 1
    /\ pc' = "item_loop"
    /\ ClearItemLocals
    /\ UNCHANGED <<callVars, whitespaceVars, clientVars, inputVars, fileVars, run, stop_flag, checkpoint_data, book,
                   result, progress, temp_epub, output_epub, historyVars>>

\* line 225, counts equal
AlignPass ==
    /\ pc = "align"
    /\ AlignmentOK(newly_translated_lines, texts_to_translate)
    /\ new_idx' = 0
    /\ pc' = IF newly_translated_lines = <<>> THEN "reconstruct" ELSE "save"
    /\ UNCHANGED <<callVars, whitespaceVars, clientVars, inputVars, fileVars, run, i, stop_flag, checkpoint_data, book,
                   texts_to_translate, untranslated_indices_map, text_chunks, j,
                   newly_translated_lines, result, progress, temp_epub, output_epub,
                   historyVars>>

\* lines 231-233: alignment failure, skip to the next file
AlignFail ==
    /\ pc = "align"
    /\ ~AlignmentOK(newly_translated_lines, texts_to_translate)
    /\ align_failed' = align_failed \cup {i}
    /\ i' = i + 1
    /\ pc' = "item_loop"
    /\ ClearItemLocals
    /\ UNCHANGED <<callVars, whitespaceVars, clientVars, inputVars, fileVars, run, stop_flag, checkpoint_data, book,
                   result, progress, temp_epub, output_epub, loaded, calls>>

\* mutant: the exception of a failed write is not caught in save_checkpoint
SaveLine_Unhandled ==
    /\ pc = "save"
    /\ new_idx < Len(newly_translated_lines)
    /\ \E ok \in WriteOutcomes :
          IF new_idx + 1 <= Len(untranslated_indices_map) /\ ok
          THEN /\ LET translated_text == newly_translated_lines[new_idx + 1]
                      original_idx == untranslated_indices_map[new_idx + 1]
                      line_data == [text |-> translated_text,
                                    is_dialogue |-> IsDialogue(translated_text)]
                  IN checkpoint_data' =
                         WithLine(checkpoint_data, i, SaveKey(j, original_idx), line_data)
               /\ DumpToFile(checkpoint_data', TRUE)
               /\ new_idx' = new_idx + 1
               /\ pc' = IF new_idx + 1 < Len(newly_translated_lines)
                        THEN "save" ELSE "reconstruct"
               /\ result' = result
          ELSE /\ ReturnNone
               /\ DumpToFile(checkpoint_data, ok)
               /\ UNCHANGED <<checkpoint_data, new_idx>>
    /\ UNCHANGED <<callVars, whitespaceVars, clientVars, inputVars, run, i, stop_flag, book, texts_to_translate,
                   untranslated_indices_map, text_chunks, j, newly_translated_lines,
                   progress, temp_epub, output_epub, historyVars>>

\* lines 226-230: one iteration of the save loop.  A new_idx without an entry
\* in untranslated_indices_map is a KeyError at line 227, which ends the run
\* (lines 271-272).
SaveLine ==
    /\ pc = "save"
    /\ new_idx < Len(newly_translated_lines)
    /\ IF new_idx + 1 <= Len(untranslated_indices_map)
       THEN /\ LET translated_text == newly_translated_lines[new_idx + 1]
                   original_idx == untranslated_indices_map[new_idx + 1]
                   line_data == [text |-> translated_text,
                                 is_dialogue |-> IsDialogue(translated_text)]
               IN checkpoint_data' =
                      WithLine(checkpoint_data, i, SaveKey(j, original_idx), line_data)
            /\ \E ok \in WriteOutcomes : DumpToFile(checkpoint_data', ok)
            /\ new_idx' = new_idx + 1
            /\ pc' = IF new_idx + 1 < Len(newly_translated_lines)
                     THEN "save" ELSE "reconstruct"
            /\ result' = result
       ELSE /\ ReturnNone
            /\ UNCHANGED <<fileVars, checkpoint_data, new_idx>>
    /\ UNCHANGED <<callVars, whitespaceVars, clientVars, inputVars, run, i, stop_flag, book, texts_to_translate,
                   untranslated_indices_map, text_chunks, j, newly_translated_lines,
                   progress, temp_epub, output_epub, historyVars>>

\* lines 236-263: replace the leaves, hand the item back, save the temp EPUB
Reconstruct ==
    /\ pc = "reconstruct"
    /\ book' = [book EXCEPT ![i + 1] = Reconstructed(@, checkpoint_data[i].lines)]
    /\ temp_epub' = book'
    /\ pc' = "mark"
    /\ UNCHANGED <<callVars, whitespaceVars, clientVars, inputVars, fileVars, run, i, stop_flag, checkpoint_data,
                   itemLocals, result, progress, output_epub, historyVars>>

\* line 263: _save_intermediate_epub raises
ReconstructSaveFails ==
    /\ pc = "reconstruct"
    /\ book' = [book EXCEPT ![i + 1] = Reconstructed(@, checkpoint_data[i].lines)]
    /\ ReturnNone
    /\ UNCHANGED <<callVars, whitespaceVars, clientVars, inputVars, fileVars, run, i, stop_flag, checkpoint_data,
                   itemLocals, progress, temp_epub, output_epub, historyVars>>

\* lines 264-265
MarkCompleted ==
    /\ pc = "mark"
    /\ checkpoint_data' = WithCompleted(checkpoint_data, i)
    /\ \E ok \in WriteOutcomes : DumpToFile(checkpoint_data', ok)
    /\ progress' = Append(progress, ProgressValue(i))
    /\ i' = i + 1
    /\ pc' = "item_loop"
    /\ ClearItemLocals
    /\ UNCHANGED <<callVars, whitespaceVars, clientVars, inputVars, run, stop_flag, book, result, temp_epub, output_epub,
                   historyVars>>

\* lines 267-269
Finish ==
    /\ pc = "item_loop"
    /\ i = Len(doc)
    /\ output_epub' = book
    /\ temp_epub' = NoFile
    /\ pc' = "done"
    /\ result' = "True"
    /\ UNCHANGED <<callVars, whitespaceVars, clientVars, inputVars, fileVars, run, i, stop_flag, checkpoint_data, book,
                   itemLocals, progress, historyVars>>

\* line 267: _save_final_epub raises
FinishFails ==
    /\ pc = "item_loop"
    /\ i = Len(doc)
    /\ ReturnNone
    /\ UNCHANGED <<callVars, whitespaceVars, clientVars, inputVars, fileVars, run, i, stop_flag, checkpoint_data, book,
                   itemLocals, progress, temp_epub, output_epub, historyVars>>

(***************************************************************************)
(* The environment of a run: the user's stop request (gui.py 215-219), a   *)
(* termination of the process, and the next run on the same input and      *)
(* output path (a new EPUBTranslator: CheckpointManager.__init__ and       *)
(* load_epub read the checkpoint file, lines 34-47 and 96).                *)
(***************************************************************************)
Running == pc \notin {"done", "crashed"}

SetStop ==
    /\ Running
    /\ ~stop_flag
    /\ stop_flag' = TRUE
    /\ UNCHANGED <<callVars, whitespaceVars, clientVars, inputVars, fileVars, run, pc, i, checkpoint_data, book,
                   itemLocals, result, progress, temp_epub, output_epub, historyVars>>

\* the process ends: its memory is lost, the files stay
ProcessGone ==
    /\ pc' = "crashed"
    /\ result' = "killed"
    /\ i' = 0
    /\ stop_flag' = FALSE
    /\ checkpoint_data' = EmptyStore(doc)
    /\ book' = doc
    /\ progress' = <<>>
    /\ loaded' = EmptyStore(doc)
    /\ calls' = <<>>
    /\ align_failed' = {}
    /\ temp_epub' = NoFile
    /\ output_epub' = NoFile
    /\ ClearItemLocals

\* the process is terminated between two steps
Crash ==
    /\ Running
    /\ ProcessGone
    /\ UNCHANGED <<callVars, whitespaceVars, clientVars, inputVars, fileVars, run>>

\* the process is terminated inside a checkpoint write (line 59 or 69 has
\* truncated the file, json.dump has not finished)
CrashInWrite ==
    /\ pc \in {"save", "mark"}
    /\ file_corrupt' = TRUE
    /\ ProcessGone
    /\ UNCHANGED <<callVars, whitespaceVars, clientVars, inputVars, cp_file, write_failures, run>>

\* mutant: the content written before the file was truncated is used
LoadCheckpoint_Stale == cp_file

\* lines 36-47: the file's content; {} when json.load raises (line 45) and
\* when there is no file (line 44; cp_file is then the empty store)
LoadCheckpoint == IF file_corrupt THEN EmptyStore(doc) ELSE cp_file

Restart ==
    /\ ~Running
    /\ run < MaxRuns
    /\ run' = run + 1
    /\ checkpoint_data' = LoadCheckpoint
    /\ loaded' = LoadCheckpoint
    /\ book' = doc
    /\ stop_flag' = FALSE
    /\ pc' = "start"
    /\ i' = 0
    /\ result' = "running"
    /\ progress' = <<>>
    /\ calls' = <<>>
    /\ align_failed' = {}
    /\ temp_epub' = NoFile
    /\ output_epub' = NoFile
    /\ ClearItemLocals
    /\ UNCHANGED <<callVars, whitespaceVars, clientVars, inputVars, fileVars>>

NextOrch ==
    \/ Begin \/ BeginFails
    \/ ItemStopped \/ ItemSkipCompleted \/ ItemNoText \/ ItemDiff
    \/ ChunkBreak \/ ChunkCall \/ ClientReturn \/ ClientRaises
    \/ AlignPass \/ AlignFail \/ SaveLine
    \/ Reconstruct \/ ReconstructSaveFails \/ MarkCompleted
    \/ Finish \/ FinishFails
    \/ SetStop \/ Crash \/ CrashInWrite \/ Restart

(***************************************************************************)
(* DeepLTranslator.  The constants of __init__ (lines 63-66) and of        *)
(* wait_for_response (line 265); durations in seconds: the poll delay of   *)
(* line 299 (0.8 to 1.2), the recovery delay of line 313 (1.5 to 2.0) and  *)
(* the WebDriverWait of line 280; the sleep of the cooldown wait (line     *)
(* 352) is one tick of the clock.                                          *)
(***************************************************************************)
DefaultMaxInputLength == 4950
cooldown == 2
retry_attempts == 3
base_timeout == 60
required_stable_cycles == 3
PollDelaySeconds == 1
RecoveryDelaySeconds == 2
SampleWaitSeconds == 5
CooldownTickSeconds == 1

\* the largest number of changing samples the history counts exactly
MaxChanges == 2

NoneValue == <<"None">>
NoSample == <<"no sample">>
NoOutcome == [kind |-> "none", text |-> <<>>]

\* the chunks a request is made with, and the translator's max_input_length
Blank == <<" ">>
Long == [k \in 1..80 |-> "x"]
ClientInputs ==
    {<<Blank, DefaultMaxInputLength>>, <<Long, 12>>, <<Long, DefaultMaxInputLength>>}

\* innerText of the output element at one sample (line 283, before strip)
Bon == <<"B", "o", "n">>
RawSamples == {<<>>, <<"\n">>, Bon, Bonjour, Bonjour \o <<"\n">>}

\* the exceptions line 309 catches, with the time the sample took
SampleExceptions ==
    {[name |-> "StaleElementReferenceException", seconds |-> 0],
     [name |-> "TimeoutException", seconds |-> SampleWaitSeconds]}

\* exception messages of the attempt (lines 339, 355, 359, 376) and one of
\* the session that mentions the usage limit
UsageLimitMessages == {"Usage limit reached"}
IsUsageLimit(message) == message \in UsageLimitMessages

\* mutant: the budget does not grow with the input
overall_timeout_Base(original_text_len) == base_timeout

\* line 259
overall_timeout(original_text_len) == base_timeout + (original_text_len \div 80)

\* mutant: an empty sample leaves the count as it is
StableStep_NoReset(current_text, last, cycles) ==
    IF current_text # <<>> /\ current_text = last
    THEN [last_text |-> last, stable_cycles |-> cycles + 1]
    ELSE IF current_text # <<>>
         THEN [last_text |-> current_text, stable_cycles |-> 1]
         ELSE [last_text |-> last, stable_cycles |-> cycles]

\* lines 286-293
StableStep(current_text, last, cycles) ==
    IF current_text # <<>> /\ current_text = last
    THEN [last_text |-> last, stable_cycles |-> cycles + 1]
    ELSE IF current_text # <<>>
         THEN [last_text |-> current_text, stable_cycles |-> 1]
         ELSE [last_text |-> last, stable_cycles |-> 0]

\* line 295
Stabilized(cycles) == cycles >= required_stable_cycles

\* mutant: InterruptedError handled like any other exception
HandlerBranch_InterruptRetried(message, attempt_no) ==
    IF IsUsageLimit(message) THEN "quota"
    ELSE IF attempt_no < retry_attempts - 1 THEN "retry"
    ELSE "failed"

\* mutant: the last attempt is retried like the others
HandlerBranch_AlwaysRetry(message, attempt_no) ==
    IF message = "InterruptedError" THEN "stopped"
    ELSE IF IsUsageLimit(message) THEN "quota"
    ELSE "retry"

\* mutant: the usage limit handled like any other exception
HandlerBranch_QuotaRetried(message, attempt_no) ==
    IF message = "InterruptedError" THEN "stopped"
    ELSE IF attempt_no < retry_attempts - 1 THEN "retry"
    ELSE "failed"

\* lines 377-395: what the except clauses do with an exception
HandlerBranch(message, attempt_no) ==
    IF message = "InterruptedError" THEN "stopped"
    ELSE IF IsUsageLimit(message) THEN "quota"
    ELSE IF attempt_no < retry_attempts - 1 THEN "retry"
    ELSE "failed"

Min(a, b) == IF a <= b THEN a ELSE b

\* the history of a wait_for_response call, when it starts
FreshHistory ==
    /\ prev_sample' = NoSample
    /\ last_nonempty' = NoSample
    /\ held_run' = 0
    /\ changes' = 0
    /\ samples_after_stop' = 0
    /\ stop_during_poll' = FALSE
    /\ wait_exit' = "none"

\* a return statement of _translate_chunk_with_verification; leaving the
\* with block of line 329 releases the lock
Return(kind, text) ==
    /\ cpc' = "returned"
    /\ outcome' = [kind |-> kind, text |-> text]
    /\ processing_lock' = "free"

\* a return statement before the with block (lines 325, 326)
ReturnBeforeLock(kind, text) ==
    /\ cpc' = "returned"
    /\ outcome' = [kind |-> kind, text |-> text]

\* mutant: the lock does not exclude
CanAcquire_Always(lock) == TRUE

\* threading.Lock (line 61): acquired only when free
CanAcquire(lock) == lock = "free"

\* raise InterruptedError (lines 272, 303, 316)
RaiseInterrupted ==
    /\ error' = "InterruptedError"
    /\ wait_exit' = "interrupted"
    /\ stop_during_poll' = TRUE
    /\ cpc' = "handler"

\* the translator as the orchestrator's model sees it: no request modelled
ClientIdle ==
    /\ req_chunk = <<>>
    /\ cpc = "idle"
    /\ attempt = 0
    /\ processing_lock = "free"
    /\ is_logged_in = FALSE
    /\ since_last_used = cooldown
    /\ written = <<>>
    /\ elapsed = 0
    /\ last_text = <<>>
    /\ stable_cycles = 0
    /\ response = NoneValue
    /\ error = "none"
    /\ outcome = NoOutcome
    /\ prev_sample = NoSample
    /\ last_nonempty = NoSample
    /\ held_run = 0
    /\ changes = 0
    /\ samples_after_stop = 0
    /\ stop_during_poll = FALSE
    /\ wait_exit = "none"
    /\ submissions = 0
    /\ resets = 0
    /\ other_pc = "absent"

\* translate_epub waiting at line 216 for the request to return
OrchAtCall ==
    /\ doc = <<>>
    /\ cp_file = EmptyStore(doc)
    /\ file_corrupt = FALSE
    /\ run = 1
    /\ pc = "in_client"
    /\ i = 0
    /\ stop_flag = FALSE
    /\ checkpoint_data = EmptyStore(doc)
    /\ book = doc
    /\ texts_to_translate = <<>>
    /\ untranslated_indices_map = <<>>
    /\ text_chunks = <<>>
    /\ j = 0
    /\ newly_translated_lines = <<>>
    /\ new_idx = 0
    /\ result = "running"
    /\ progress = <<>>
    /\ temp_epub = NoFile
    /\ output_epub = NoFile
    /\ loaded = EmptyStore(doc)
    /\ calls = <<>>
    /\ align_failed = {}
    /\ write_failures = 0

\* a translator that may have served requests before (is_logged_in,
\* last_used_time), called with a chunk
InitClient ==
    /\ OrchAtCall
    /\ WhitespaceIdle
    /\ CallIdle
    /\ \E input \in ClientInputs :
          /\ req_chunk = input[1]
          /\ max_input_length = input[2]
    /\ cpc = "entry"
    /\ attempt = 0
    /\ processing_lock = "free"
    /\ is_logged_in \in BOOLEAN
    /\ since_last_used \in {0, cooldown}
    /\ written = <<>>
    /\ elapsed = 0
    /\ last_text = <<>>
    /\ stable_cycles = 0
    /\ response = NoneValue
    /\ error = "none"
    /\ outcome = NoOutcome
    /\ prev_sample = NoSample
    /\ last_nonempty = NoSample
    /\ held_run = 0
    /\ changes = 0
    /\ samples_after_stop = 0
    /\ stop_during_poll = FALSE
    /\ wait_exit = "none"
    /\ submissions = 0
    /\ resets = 0
    /\ other_pc = "entry"

orchOnlyVars ==
    <<doc, cp_file, file_corrupt, run, pc, i, checkpoint_data, book,
      itemLocals, result, progress, temp_epub, output_epub, historyVars,
      write_failures>>

(***************************************************************************)
(* DeepLTranslator._translate_chunk_with_verification, one action per      *)
(* step between two reads of the stop flag or two session operations.      *)
(***************************************************************************)
\* mutant: the flag is not read before the lock is asked for
StopFlagIsSet_NotRead == FALSE

\* line 325: self.stop_flag.is_set()
StopFlagIsSet == stop_flag

\* lines 325-327: the checks made before the lock is asked for
Entry ==
    /\ cpc = "entry"
    /\ IF StopFlagIsSet
       THEN ReturnBeforeLock("stopped", STOPPED_MARKER)
       ELSE IF strip(req_chunk) = <<>>
            THEN ReturnBeforeLock("blank", <<>>)
            ELSE /\ cpc' = "lock"
                 /\ outcome' = outcome
    /\ UNCHANGED <<callVars, whitespaceVars, orchOnlyVars, max_input_length, stop_flag, req_chunk, submissions,
                   resets, other_pc, attempt, processing_lock, is_logged_in,
                   since_last_used, written, waitVars, response, error, waitHistory>>

\* line 329: with self.processing_lock blocks until the lock is free
AcquireLock ==
    /\ cpc = "lock"
    /\ CanAcquire(processing_lock)
    /\ processing_lock' = "held"
    /\ attempt' = 0
    /\ cpc' = "attempt"
    /\ UNCHANGED <<callVars, whitespaceVars, orchOnlyVars, max_input_length, stop_flag, req_chunk, submissions,
                   resets, other_pc, is_logged_in, since_last_used, written,
                   waitVars, response, error, outcome, waitHistory>>

\* the second thread: its request takes the lock at line 329, uses the
\* session (it may log in, reset the session, write a payload) and leaves
\* the with block; the thread then calls again, as long as the first request
\* is not over
OtherAcquire ==
    /\ other_pc = "entry"
    /\ cpc \notin {"returned", "raised"}
    /\ CanAcquire(processing_lock)
    /\ processing_lock' = "held"
    /\ other_pc' = "locked"
    /\ UNCHANGED <<callVars, whitespaceVars, orchOnlyVars, max_input_length, stop_flag, req_chunk, submissions,
                   resets, cpc, attempt, is_logged_in, since_last_used, written,
                   waitVars, response, error, outcome, waitHistory>>

OtherRelease ==
    /\ other_pc = "locked"
    /\ processing_lock' = "free"
    /\ other_pc' = "entry"
    /\ is_logged_in' \in BOOLEAN
    /\ since_last_used' \in {0, since_last_used}
    /\ UNCHANGED <<callVars, whitespaceVars, orchOnlyVars, max_input_length, stop_flag, req_chunk, submissions,
                   resets, cpc, attempt, written, waitVars, response, error,
                   outcome, waitHistory>>

\* lines 330-334 and line 397: the head of the retry loop
AttemptStart ==
    /\ cpc = "attempt"
    /\ IF attempt >= retry_attempts
       THEN Return("failed", FailedMarker(Payload(req_chunk, max_input_length)))
       ELSE IF stop_flag
            THEN Return("stopped", STOPPED_MARKER)
            ELSE /\ cpc' = "login"
                 /\ UNCHANGED <<outcome, processing_lock>>
    /\ UNCHANGED <<callVars, whitespaceVars, orchOnlyVars, max_input_length, stop_flag, req_chunk, submissions,
                   resets, other_pc, attempt,
                   is_logged_in, since_last_used, written, waitVars, response,
                   error, waitHistory>>

\* lines 339-341: ensure_login (lines 121-161) returns True or False
Login ==
    /\ cpc = "login"
    /\ \E ok \in (IF is_logged_in THEN {TRUE} ELSE {TRUE, FALSE}) :
          IF ok
          THEN /\ is_logged_in' = TRUE
               /\ cpc' = "cooldown"
               /\ error' = error
          ELSE /\ is_logged_in' = is_logged_in
               /\ cpc' = "handler"
               /\ error' = "Login failed."
    /\ UNCHANGED <<callVars, whitespaceVars, orchOnlyVars, max_input_length, stop_flag, req_chunk, submissions,
                   resets, other_pc, attempt,
                   processing_lock, since_last_used, written, waitVars, response,
                   outcome, waitHistory>>

\* mutant: the wait is over at once
CooldownOver_Always(since) == TRUE

\* line 348: time.time() >= sleep_end_time
CooldownOver(since) == since >= cooldown

\* lines 343-346
Cooldown ==
    /\ cpc = "cooldown"
    /\ cpc' = IF since_last_used < cooldown THEN "cooldown_wait" ELSE "submit"
    /\ UNCHANGED <<callVars, whitespaceVars, orchOnlyVars, max_input_length, stop_flag, req_chunk, submissions,
                   resets, other_pc, attempt, outcome, processing_lock, since_last_used,
                   is_logged_in, written, waitVars, response, error, waitHistory>>

\* lines 348-351: the test of the while loop, then the read of the flag
CooldownCheck ==
    /\ cpc = "cooldown_wait"
    /\ IF CooldownOver(since_last_used)
       THEN /\ cpc' = "submit"
            /\ UNCHANGED <<outcome, processing_lock>>
       ELSE IF stop_flag
            THEN Return("stopped", STOPPED_MARKER)
            ELSE /\ cpc' = "cooldown_sleep"
                 /\ UNCHANGED <<outcome, processing_lock>>
    /\ UNCHANGED <<callVars, whitespaceVars, orchOnlyVars, max_input_length, stop_flag, req_chunk, submissions,
                   resets, other_pc, attempt, since_last_used,
                   is_logged_in, written, waitVars, response, error, waitHistory>>

\* line 352: time.sleep, one tick of the clock
CooldownSleep ==
    /\ cpc = "cooldown_sleep"
    /\ since_last_used' = Min(cooldown, since_last_used + CooldownTickSeconds)
    /\ cpc' = "cooldown_wait"
    /\ UNCHANGED <<callVars, whitespaceVars, orchOnlyVars, max_input_length, stop_flag, req_chunk, submissions,
                   resets, other_pc, attempt, outcome, processing_lock,
                   is_logged_in, written, waitVars, response, error, waitHistory>>

\* lines 354-363: find the input, write the payload, start the wait
\* (lines 259-265)
Submit ==
    /\ cpc = "submit"
    /\ \E failure \in {"none", "Could not find source text input.",
                       "Failed to set text."} \cup UsageLimitMessages :
          IF failure = "none"
          THEN /\ written' = Payload(req_chunk, max_input_length)
               /\ submissions' = submissions + 1
               /\ since_last_used' = 0
               /\ elapsed' = 0
               /\ last_text' = <<>>
               /\ stable_cycles' = 0
               /\ FreshHistory
               /\ cpc' = "poll"
               /\ error' = error
          ELSE /\ error' = failure
               /\ cpc' = "handler"
               /\ UNCHANGED <<written, since_last_used, waitVars, waitHistory,
                              submissions>>
    /\ UNCHANGED <<callVars, whitespaceVars, orchOnlyVars, max_input_length, stop_flag, req_chunk, resets, other_pc, attempt,
                   processing_lock, is_logged_in, response, outcome>>

(***************************************************************************)
(* DeepLTranslator.wait_for_response                                       *)
(***************************************************************************)
\* lines 267-272 and 319-321: the loop test, then the flag check
PollCycleStart ==
    /\ cpc = "poll"
    /\ IF elapsed >= overall_timeout(Len(written))
       THEN /\ response' = IF last_text # <<>> THEN last_text ELSE NoneValue
            /\ wait_exit' = "timeout"
            /\ stop_during_poll' = (stop_during_poll \/ stop_flag)
            /\ cpc' = "after_wait"
            /\ error' = error
       ELSE IF stop_flag
            THEN /\ RaiseInterrupted
                 /\ response' = response
            ELSE /\ cpc' = "sample"
                 /\ UNCHANGED <<response, error, wait_exit, stop_during_poll>>
    /\ UNCHANGED <<callVars, whitespaceVars, orchOnlyVars, max_input_length, stop_flag, req_chunk, submissions,
                   resets, other_pc, attempt,
                   processing_lock, is_logged_in, since_last_used, written,
                   waitVars, outcome, prev_sample, last_nonempty, held_run, changes,
                   samples_after_stop>>

\* lines 274-297: one sample and its evaluation
SampleText ==
    /\ cpc = "sample"
    /\ \E raw \in RawSamples :
          LET current_text == strip(raw)
              step == StableStep(current_text, last_text, stable_cycles)
              same == current_text # <<>> /\ current_text = prev_sample
          IN /\ last_text' = step.last_text
             /\ stable_cycles' = step.stable_cycles
             /\ prev_sample' = current_text
             /\ last_nonempty' = IF current_text # <<>> THEN current_text ELSE last_nonempty
             /\ held_run' = IF same THEN held_run + 1
                            ELSE IF current_text # <<>> THEN 1 ELSE 0
             /\ changes' = IF current_text = <<>> \/ changes = -1 THEN -1
                           ELSE IF same THEN changes
                           ELSE IF held_run <= 1
                                THEN Min(MaxChanges, changes + held_run)
                                ELSE -1
             /\ IF Stabilized(step.stable_cycles)
                THEN /\ response' = current_text
                     /\ wait_exit' = "stable"
                     /\ cpc' = "after_wait"
                ELSE /\ cpc' = "delay"
                     /\ UNCHANGED <<response, wait_exit>>
    /\ samples_after_stop' = samples_after_stop + (IF stop_flag THEN 1 ELSE 0)
    /\ stop_during_poll' = (stop_during_poll \/ stop_flag)
    /\ UNCHANGED <<callVars, whitespaceVars, orchOnlyVars, max_input_length, stop_flag, req_chunk, submissions,
                   resets, other_pc, attempt,
                   processing_lock, is_logged_in, since_last_used, written,
                   elapsed, error, outcome>>

\* lines 276-283 raise, lines 309-311
SampleRaises ==
    /\ cpc = "sample"
    /\ \E exception \in SampleExceptions :
          /\ elapsed' = elapsed + exception.seconds
          /\ since_last_used' = Min(cooldown, since_last_used + exception.seconds)
    /\ stable_cycles' = 0
    /\ prev_sample' = NoSample
    /\ held_run' = 0
    /\ changes' = -1
    /\ samples_after_stop' = samples_after_stop + (IF stop_flag THEN 1 ELSE 0)
    /\ stop_during_poll' = (stop_during_poll \/ stop_flag)
    /\ cpc' = "recovery"
    /\ UNCHANGED <<callVars, whitespaceVars, orchOnlyVars, max_input_length, stop_flag, req_chunk, submissions,
                   resets, other_pc, attempt,
                   processing_lock, is_logged_in, written, last_text, response,
                   error, outcome, wait_exit, last_nonempty>>

\* lines 299-304 when seconds is the poll delay, lines 313-317 when it is
\* the recovery delay
DelayLoop(seconds) ==
    /\ IF stop_flag
       THEN /\ RaiseInterrupted
            /\ UNCHANGED <<elapsed, since_last_used>>
       ELSE /\ elapsed' = elapsed + seconds
            /\ since_last_used' = Min(cooldown, since_last_used + seconds)
            /\ cpc' = "poll"
            /\ UNCHANGED <<error, wait_exit, stop_during_poll>>
    /\ UNCHANGED <<callVars, whitespaceVars, orchOnlyVars, max_input_length, stop_flag, req_chunk, submissions,
                   resets, other_pc, attempt,
                   processing_lock, is_logged_in, written, last_text,
                   stable_cycles, response, outcome, prev_sample, last_nonempty,
                   held_run, changes, samples_after_stop>>

PollDelay ==
    /\ cpc = "delay"
    /\ DelayLoop(PollDelaySeconds)

RecoveryDelay ==
    /\ cpc = "recovery"
    /\ DelayLoop(RecoveryDelaySeconds)

\* lines 365-376: the use of the value wait_for_response returned
AfterWait ==
    /\ cpc = "after_wait"
    /\ IF response = STOPPED_MARKER
       THEN /\ Return("stopped", STOPPED_MARKER)
            /\ UNCHANGED <<error, written>>
       ELSE IF response # NoneValue /\ strip(response) # <<>>
            THEN /\ Return("success", response)
                 /\ \E cleared \in BOOLEAN :
                       written' = IF cleared THEN <<>> ELSE written
                 /\ error' = error
            ELSE /\ error' = "Received an empty or invalid translation."
                 /\ cpc' = "handler"
                 /\ UNCHANGED <<outcome, processing_lock, written>>
    /\ UNCHANGED <<callVars, whitespaceVars, orchOnlyVars, max_input_length, stop_flag, req_chunk, submissions,
                   resets, other_pc, attempt,
                   is_logged_in, since_last_used, waitVars, response, waitHistory>>

\* lines 377-395: the except clauses
Handler ==
    /\ cpc = "handler"
    /\ LET branch == HandlerBranch(error, attempt)
       IN IF branch = "stopped" THEN Return("stopped", STOPPED_MARKER)
          ELSE IF branch = "quota" THEN Return("quota", USAGE_LIMIT_MARKER)
          ELSE IF branch = "retry"
               THEN /\ cpc' = "backoff"
                    /\ UNCHANGED <<outcome, processing_lock>>
               ELSE Return("failed", FailedMarker(Payload(req_chunk, max_input_length)))
    /\ UNCHANGED <<callVars, whitespaceVars, orchOnlyVars, max_input_length, stop_flag, req_chunk, submissions,
                   resets, other_pc, attempt,
                   is_logged_in, since_last_used, written, waitVars, response,
                   error, waitHistory>>

\* mutant: the authenticated state survives the reset
LoggedInAfterReset_Kept == is_logged_in

\* line 392
LoggedInAfterReset == FALSE

\* lines 390-392: human_delay(3, 5), driver.refresh(), is_logged_in = False;
\* an exception of the delay or of the refresh is raised inside the except
\* clause and leaves the function
Backoff ==
    /\ cpc = "backoff"
    /\ \E refreshed \in BOOLEAN :
          IF refreshed
          THEN /\ is_logged_in' = LoggedInAfterReset
               /\ attempt' = attempt + 1
               /\ cpc' = "attempt"
               /\ written' = <<>>
               /\ resets' = resets + 1
               /\ UNCHANGED <<outcome, processing_lock>>
          ELSE /\ cpc' = "raised"
               /\ outcome' = [kind |-> "exception", text |-> <<>>]
               /\ processing_lock' = "free"
               /\ UNCHANGED <<is_logged_in, attempt, written, resets>>
    /\ since_last_used' = cooldown
    /\ UNCHANGED <<callVars, whitespaceVars, orchOnlyVars, max_input_length, stop_flag, req_chunk, submissions, other_pc, waitVars,
                   response, error, waitHistory>>

NextClient ==
    \/ Entry \/ AcquireLock \/ OtherAcquire \/ OtherRelease
    \/ AttemptStart \/ Login \/ Cooldown \/ CooldownCheck \/ CooldownSleep \/ Submit
    \/ PollCycleStart \/ SampleText \/ SampleRaises \/ PollDelay \/ RecoveryDelay
    \/ AfterWait \/ Handler \/ Backoff
    \/ SetStop

vars == <<orchVars, clientVars, whitespaceVars, callVars>>
Init == InitOrch /\ ClientIdle /\ WhitespaceIdle /\ CallIdle
Next == NextOrch
Spec == Init /\ [][Next]_vars
SpecClient == InitClient /\ [][NextClient]_vars

(***************************************************************************)
(* TranslatorBase (src/translator_base.py).  Positions are 0-based as in   *)
(* the source; a regular expression is modelled by the matches Python's    *)
(* re finds for it (leftmost, greedy, non-overlapping).                    *)
(***************************************************************************)
SentenceEnd == {".", "!", "?"}
SentencesPerParagraph == 5
ParagraphSeparator == <<"\n", "\n">>
LineSeparator == <<"\n">>

\* the first position from k on whose character is not in S (Len(s) + 1
\* when there is none): the end of a greedy run of S at k
RECURSIVE RunEnd(_, _, _)
RunEnd(s, k, S) ==
    IF k > Len(s) \/ s[k] \notin S THEN k ELSE RunEnd(s, k + 1, S)

\* line 25: re.match(r'^(\s*)', text).group(1)
leading_spaces(s) == SubSeq(s, 1, RunEnd(s, 1, Whitespace) - 1)

\* line 26: re.search(r'(\s*)$', text).group(1): the leftmost position
\* from which only whitespace follows
trailing_spaces(s) ==
    LET ks == {k \in 1..Len(s) : s[k] \notin Whitespace}
    IN IF ks = {} THEN s ELSE SubSeq(s, SetMax(ks) + 1, Len(s))

\* line 27: {m.start(): m.group() for m in re.finditer(r' {2,}', text)}
extra_spaces(s) ==
    {[pos |-> k - 1, spaces |-> SubSeq(s, k, RunEnd(s, k, {" "}) - 1)] :
        k \in {m \in 1..Len(s) : /\ s[m] = " "
                                 /\ (m = 1 \/ s[m - 1] # " ")
                                 /\ RunEnd(s, m, {" "}) - m >= 2}}

\* re.sub(r'\s+', ' ', s)
RECURSIVE re_sub_whitespace(_)
re_sub_whitespace(s) ==
    IF s = <<>> THEN <<>>
    ELSE IF s[1] \in Whitespace
         THEN <<" ">> \o re_sub_whitespace(SubSeq(s, RunEnd(s, 1, Whitespace), Len(s)))
         ELSE <<s[1]>> \o re_sub_whitespace(Tail(s))

\* line 28
normalized(s) == re_sub_whitespace(strip(s))

\* the end (exclusive, 1-based) of the match of (\n\s*\n|\n) that starts at
\* the newline at k: the first alternative reaches the last newline of the
\* whitespace run that follows, the second is the newline alone
BreakMatchEnd(s, k) ==
    LET e == RunEnd(s, k + 1, Whitespace)
        ns == {m \in (k + 1)..(e - 1) : s[m] = "\n"}
    IN IF ns = {} THEN k + 1 ELSE SetMax(ns) + 1

\* lines 36 and 88: the matches of (\n\s*\n|\n) from position from on, each
\* with match.start(), match.end() and match.group(0)
RECURSIVE BreakMatches(_, _)
BreakMatches(s, from) ==
    LET ks == {k \in from..Len(s) : s[k] = "\n"}
    IN IF ks = {} THEN <<>>
       ELSE LET k == SetMin(ks)
                e == BreakMatchEnd(s, k)
            IN <<[start |-> k - 1, end |-> e - 1, group |-> SubSeq(s, k, e - 1)]>>
               \o BreakMatches(s, e)

\* line 41
break_type(match) == IF strip(match.group) # <<>> THEN "paragraph" ELSE "line"

\* lines 36-49: the loop over the matches, returning the list breaks
RECURSIVE BreakLoop(_, _, _)
BreakLoop(matches, current_pos, last_pos) ==
    IF matches = <<>> THEN <<>>
    ELSE LET match == Head(matches)
             position == current_pos + (match.start - last_pos)
             width == IF break_type(match) = "paragraph" THEN 2 ELSE 1
         IN <<[position |-> position, type |-> break_type(match)]>>
            \o BreakLoop(Tail(matches), position + width, match.end)

\* lines 44 and 47: the positions of the breaks of one type
PositionsOfType(break_list, type) ==
    LET sel == SelectSeq(break_list, LAMBDA b : b.type = type)
    IN [k \in 1..Len(sel) |-> sel[k].position]

extract_whitespace_info(s) ==
    IF s = <<>>
    THEN [original_length |-> 0, normalized |-> <<>>, paragraph_breaks |-> <<>>,
          line_breaks |-> <<>>, has_paragraphs |-> FALSE, breaks |-> <<>>,
          leading_spaces |-> <<>>, trailing_spaces |-> <<>>, extra_spaces |-> {}]
    ELSE LET break_list == BreakLoop(BreakMatches(s, 1), 0, 0)
         IN [original_length |-> Len(s),
             normalized |-> normalized(s),
             paragraph_breaks |-> PositionsOfType(break_list, "paragraph"),
             line_breaks |-> PositionsOfType(break_list, "line"),
             has_paragraphs |-> Len(PositionsOfType(break_list, "paragraph")) > 0,
             breaks |-> break_list,
             leading_spaces |-> leading_spaces(s),
             trailing_spaces |-> trailing_spaces(s),
             extra_spaces |-> extra_spaces(s)]

\* line 79: re.split(r'(?<=[.!?])\s+', s)
RECURSIVE re_split_sentences(_)
re_split_sentences(s) ==
    LET ks == {k \in 2..Len(s) : s[k] \in Whitespace /\ s[k - 1] \in SentenceEnd}
    IN IF ks = {} THEN <<s>>
       ELSE LET k == SetMin(ks)
            IN <<SubSeq(s, 1, k - 1)>>
               \o re_split_sentences(SubSeq(s, RunEnd(s, k, Whitespace), Len(s)))

\* line 80: [sentences[i: i + 5] for i in range(0, len(sentences), 5)]
SentenceChunks(sentences) ==
    [c \in 1..((Len(sentences) + SentencesPerParagraph - 1) \div SentencesPerParagraph) |->
        SubSeq(sentences, SentencesPerParagraph * (c - 1) + 1,
               Min(SentencesPerParagraph * c, Len(sentences)))]

\* lines 79-84
FallbackReconstruction(s, info) ==
    LET chunks == SentenceChunks(re_split_sentences(s))
        reconstructed == join(ParagraphSeparator,
                              [c \in 1..Len(chunks) |-> join(<<" ">>, chunks[c])])
    IN info.leading_spaces \o reconstructed \o info.trailing_spaces

\* line 88: re.split(r'\n\s*\n|\n', s)
re_split_breaks(s) ==
    LET ms == BreakMatches(s, 1)
    IN [k \in 1..(Len(ms) + 1) |->
           SubSeq(s, (IF k = 1 THEN 0 ELSE ms[k - 1].end) + 1,
                  IF k = Len(ms) + 1 THEN Len(s) ELSE ms[k].start)]

\* line 88: [s.strip() for s in ... if s.strip()]
StrippedSegments(s) ==
    LET parts == re_split_breaks(s)
        stripped == [k \in 1..Len(parts) |-> strip(parts[k])]
    IN SelectSeq(stripped, LAMBDA part : part # <<>>)

\* line 98: sorted(breaks, key=position), a stable sort
RECURSIVE sorted_by_position(_)
sorted_by_position(break_list) ==
    IF break_list = <<>> THEN <<>>
    ELSE LET last == break_list[Len(break_list)]
             rest == sorted_by_position(SubSeq(break_list, 1, Len(break_list) - 1))
         IN SelectSeq(rest, LAMBDA b : b.position <= last.position)
            \o <<last>>
            \o SelectSeq(rest, LAMBDA b : b.position > last.position)

\* lines 101-104: the while loop; st has the fields text (the list result,
\* joined), segment_index and current_pos.  The loop runs for a break, so
\* "not breaks" is false
RECURSIVE TakeSegments(_, _, _)
TakeSegments(segments, st, position) ==
    IF st.segment_index < Len(segments) /\ st.current_pos <= position
    THEN TakeSegments(segments,
                      [text |-> st.text \o segments[st.segment_index + 1],
                       segment_index |-> st.segment_index + 1,
                       current_pos |-> st.current_pos + Len(segments[st.segment_index + 1])],
                      position)
    ELSE st

\* lines 100-110: the for loop over the breaks
RECURSIVE BreaksLoop(_, _, _)
BreaksLoop(segments, break_list, st) ==
    IF break_list = <<>> THEN st
    ELSE LET taken == TakeSegments(segments, st, Head(break_list).position)
             sep == IF Head(break_list).type = "paragraph" THEN ParagraphSeparator
                    ELSE IF Head(break_list).type = "line" THEN LineSeparator
                    ELSE <<>>
         IN BreaksLoop(segments, Tail(break_list),
                       [text |-> taken.text \o sep,
                        segment_index |-> taken.segment_index,
                        current_pos |-> taken.current_pos + Len(sep)])

\* lines 119-121: the runs of spaces inserted from the last position to the
\* first
RECURSIVE InsertExtraSpaces(_, _)
InsertExtraSpaces(s, extras) ==
    IF extras = {} THEN s
    ELSE LET x == CHOOSE x \in extras : \A y \in extras : y.pos <= x.pos
         IN InsertExtraSpaces(
                IF x.pos <= Len(s)
                THEN SubSeq(s, 1, x.pos) \o x.spaces \o SubSeq(s, x.pos + 1, Len(s))
                ELSE s,
                extras \ {x})

\* lines 95-125
BreakReconstruction(segments, info) ==
    LET st == BreaksLoop(segments, sorted_by_position(info.breaks),
                         [text |-> <<>>, segment_index |-> 0, current_pos |-> 0])
        joined == st.text \o concat(SubSeq(segments, st.segment_index + 1, Len(segments)))
    IN info.leading_spaces
       \o InsertExtraSpaces(joined, info.extra_spaces)
       \o info.trailing_spaces

\* lines 70-129.  No statement of the try block raises for a dictionary
\* made by extract_whitespace_info, so the handler of lines 130-134 has no
\* part
reconstruct_whitespace(s, info) ==
    IF strip(s) = <<>>
    THEN info.leading_spaces \o info.trailing_spaces
    ELSE IF ~info.has_paragraphs
    THEN FallbackReconstruction(s, info)
    ELSE IF StrippedSegments(s) = <<>>
    THEN info.leading_spaces \o s \o info.trailing_spaces
    ELSE BreakReconstruction(StrippedSegments(s), info)

(***************************************************************************)
(* The texts the two functions are exercised on: every text of up to       *)
(* MaxTextLen characters over a letter, a full stop, the space and the     *)
(* newline, and a few translations as the service may return them (before  *)
(* normalisation).                                                         *)
(***************************************************************************)
MaxTextLen == 4
TextAlphabet == {"a", ".", " ", "\n"}
Texts == UNION {[1..n -> TextAlphabet] : n \in 0..MaxTextLen}
SixSentences ==
    <<"A", ".", " ", "B", ".", " ", "C", ".", " ", "D", ".", " ", "E", ".", " ", "F", ".">>
Translations ==
    {<<>>,
     <<"A", " ", "B">>,
     <<" ", "A", ".", " ", " ", "B", "\n">>,
     SixSentences}

\* the pipeline is not started; one of its inputs is fixed
InitWhitespace ==
    /\ InitOrch
    /\ doc = DocTwo
    /\ ClientIdle
    /\ CallIdle
    /\ ws_text \in Texts
    /\ ws_translated \in Translations
    /\ ws_pc = "start"
    /\ whitespace_info = <<>>
    /\ ws_final_text = <<>>

whitespaceFrame == <<orchVars, clientVars, callVars>>

ExtractWhitespace ==
    /\ ws_pc = "start"
    /\ whitespace_info' = extract_whitespace_info(ws_text)
    /\ ws_pc' = "extracted"
    /\ UNCHANGED <<whitespaceFrame, ws_text, ws_translated, ws_final_text>>

\* the round trip: the translation, normalised, is given the text's whitespace
ReconstructWhitespace ==
    /\ ws_pc = "extracted"
    /\ ws_final_text' = reconstruct_whitespace(normalized(ws_translated), whitespace_info)
    /\ ws_pc' = "reconstructed"
    /\ UNCHANGED <<whitespaceFrame, ws_text, ws_translated, whitespace_info>>

NextWhitespace == ExtractWhitespace \/ ReconstructWhitespace

SpecWhitespace == InitWhitespace /\ [][NextWhitespace]_vars

(***************************************************************************)
(* EPUBTranslator.intelligent_chunk_text on its own, followed by the       *)
(* truncation the client applies to each chunk (deepl_translator.py line   *)
(* 327, with max_input_length = max_chars as at line 207).  The segments   *)
(* are stripped, non-empty texts, as line 202 makes them.                  *)
(***************************************************************************)
MaxSegments == 3
Thirteen == [k \in 1..13 |-> "c"]
Segments == {<<"a">>, <<"b", "b">>, <<"x">> \o TEXT_DELIMITER \o <<"y">>, Thirteen}
SegmentLists == UNION {[1..n -> Segments] : n \in 0..MaxSegments}
MaxCharsValues == {5, 11, 12, 21, 22, 40}

InitChunker ==
    /\ InitOrch
    /\ doc = DocTwo
    /\ ClientIdle
    /\ WhitespaceIdle
    /\ call_args \in [text_list : SegmentLists, max_chars : MaxCharsValues]
    /\ call_pc = "start"
    /\ call_value = <<>>

callFrame == <<orchVars, clientVars, whitespaceVars>>

\* line 207
ChunkText ==
    /\ call_pc = "start"
    /\ call_value' = [text_chunks |-> intelligent_chunk_text(call_args.text_list,
                                                             call_args.max_chars),
                      payloads |-> <<>>]
    /\ call_pc' = "chunked"
    /\ UNCHANGED <<callFrame, call_args>>

\* line 327 of the client, for each chunk of the loop of line 212
ClipChunks ==
    /\ call_pc = "chunked"
    /\ call_value' = [call_value EXCEPT !.payloads =
                         [k \in 1..Len(call_value.text_chunks) |->
                             Payload(call_value.text_chunks[k], call_args.max_chars)]]
    /\ call_pc' = "clipped"
    /\ UNCHANGED <<callFrame, call_args>>

NextChunker == ChunkText \/ ClipChunks

SpecChunker == InitChunker /\ [][NextChunker]_vars

(***************************************************************************)
(* Properties of translate_epub, checked under Spec.                       *)
(***************************************************************************)
AllCompleted(store) == \A it \in DOMAIN store : store[it].completed

\* the original indices that have a record in an item's checkpoint, under
\* whatever chunk name
PersistedIdx(record) == {key[2] : key \in DOMAIN record.lines}

CallsOf(it) == {k \in 1..Len(calls) : calls[k].item = it}
SubmittedIdx(it) == UNION {calls[k].idxs : k \in CallsOf(it)}

\* C1: a run that starts from a store in which every content item is marked
\* completed submits no translation request.
C1_IdempotentResume ==
    (run > 1 /\ AllCompleted(loaded)) => calls = <<>>

\* run 2 has returned True from a store with every item completed, where run 1
\* had batched an item into several chunks (its lines are keyed chunk1, ...)
C1_Witness ==
    /\ run = 2
    /\ pc = "done"
    /\ result = "True"
    /\ AllCompleted(loaded)
    /\ \E it \in DOMAIN loaded : \E key \in DOMAIN loaded[it].lines : key[1] >= 1
    /\ Len(progress) = Len(doc)
    /\ calls = <<>>

\* C2: a run resumed from a store that holds K of an item's N lines submits
\* none of the K persisted segments, and, when the chunk loop was not stopped,
\* exactly the N-K others.
C2_ResumeOnlyMissing ==
    /\ \A k \in 1..Len(calls) :
           calls[k].idxs \cap PersistedIdx(loaded[calls[k].item]) = {}
    /\ (pc = "align" /\ ~stop_flag) =>
           SubmittedIdx(i) =
               (0..(Len(original_text_nodes(doc[i + 1])) - 1)) \ PersistedIdx(loaded[i])

\* C3: when the request for chunk k+1 of an item is submitted, every line
\* translated from the chunks before it is in the checkpoint file.
C3_PerLineDurability ==
    (pc = "in_client" /\ j >= 1) =>
        \A n \in 1..Len(newly_translated_lines) :
            n <= Len(untranslated_indices_map) =>
                untranslated_indices_map[n] \in PersistedIdx(cp_file[i])

\* C4: after the client has reported the usage limit for a chunk, the run
\* submits no further request, the item is not marked completed, no line of
\* that chunk is recorded, and the lines persisted before stay as they were.
C4_QuotaHalts ==
    \A k \in 1..Len(calls) :
        calls[k].kind = "quota" =>
            LET it == calls[k].item
            IN /\ k = Len(calls)
               /\ ~checkpoint_data[it].completed
               /\ \A key \in DOMAIN checkpoint_data[it].lines :
                      key[2] \in calls[k].idxs => key \in DOMAIN loaded[it].lines
               /\ \A key \in DOMAIN loaded[it].lines :
                      /\ key \in DOMAIN checkpoint_data[it].lines
                      /\ checkpoint_data[it].lines[key] = loaded[it].lines[key]

\* the step translate_epub takes (not the user's stop request, not a
\* termination of the process)
OrchStep == pc' # pc /\ pc' # "crashed"

\* C7: when the translated result of an item has another number of segments
\* than were submitted, the step from the alignment check changes no
\* checkpoint record (in memory or in the file) and goes on to the next item
\* without ending the run; an item skipped that way is not marked completed.
C7_AlignmentFailureContained ==
    /\ [][(/\ pc = "align"
           /\ Len(newly_translated_lines) # Len(texts_to_translate)
           /\ OrchStep)
          => (/\ checkpoint_data' = checkpoint_data
              /\ cp_file' = cp_file
              /\ pc' = "item_loop"
              /\ i' = i + 1
              /\ result' = result)]_vars
    /\ [](\A it \in align_failed : ~checkpoint_data[it].completed)

\* the first item failed its alignment check and is not completed; the run
\* went on, completed the second item and returned True
C7_Witness ==
    /\ pc = "done"
    /\ result = "True"
    /\ align_failed = {0}
    /\ ~checkpoint_data[0].completed
    /\ Len(doc) = 2
    /\ checkpoint_data[1].completed
    /\ checkpoint_data[1].lines # <<>>

\* C8: splitting each chunk of intelligent_chunk_text on TEXT_DELIMITER gives
\* the segments joined into it, and all chunks together give the segment list.
C8_ChunkRoundTrip ==
    pc \in {"chunk_loop", "in_client", "align"} =>
        LET groups == ChunkGroups(texts_to_translate, max_input_length)
        IN /\ Len(text_chunks) = Len(groups)
           /\ \A g \in 1..Len(text_chunks) :
                  split(text_chunks[g], TEXT_DELIMITER) = groups[g]
           /\ concat([g \in 1..Len(text_chunks) |->
                          split(text_chunks[g], TEXT_DELIMITER)]) = texts_to_translate

\* the scenario: the item [Hello, world, foo], maxChars 1000, nothing persisted
ScenarioRun ==
    /\ doc = DocScenario
    /\ max_input_length = 1000
    /\ loaded[0].lines = <<>>
    /\ ~loaded[0].completed

ScenarioLine(n) ==
    [text |-> <<Bonjour, monde, truc>>[n + 1], is_dialogue |-> FALSE]

\* C9: the item [Hello, world, foo] with maxChars 1000 is submitted as the one
\* chunk "Hello|||---|||world|||---|||foo"; the answer
\* "Bonjour|||---|||monde|||---|||truc" splits into 3 results, line i is
\* persisted with result i, and the item is marked completed.
C9_SingleChunkScenario ==
    ScenarioRun =>
        /\ pc = "in_client" => (text_chunks = <<HelloChunk>> /\ Len(calls) = 1)
        /\ ChunkResults(BonjourChunk, HelloChunk) = <<Bonjour, monde, truc>>
        /\ (/\ pc \in {"save", "reconstruct", "mark"}
            /\ newly_translated_lines = <<Bonjour, monde, truc>>)
           => \A n \in 0..2 :
                  (pc = "save" => n < new_idx) =>
                      /\ LookupKey(n) \in DOMAIN checkpoint_data[0].lines
                      /\ checkpoint_data[0].lines[LookupKey(n)] = ScenarioLine(n)
        /\ (/\ result = "True"
            /\ Len(calls) = 1
            /\ calls[1].kind = "success"
            /\ align_failed = {})
           => /\ checkpoint_data[0].completed
              /\ DOMAIN checkpoint_data[0].lines = {LookupKey(n) : n \in 0..2}
              /\ \A n \in 0..2 : checkpoint_data[0].lines[LookupKey(n)] = ScenarioLine(n)
              /\ (write_failures = 0 => cp_file = checkpoint_data)

\* the scenario has run to the end: three lines persisted, item completed
C9_Witness ==
    /\ ScenarioRun
    /\ run = 1
    /\ result = "True"
    /\ Len(calls) = 1
    /\ calls[1].kind = "success"
    /\ calls[1].idxs = {0, 1, 2}
    /\ checkpoint_data[0].completed
    /\ cp_file[0].completed
    /\ cp_file[0].lines[LookupKey(2)].text = truc

HasMarker(text) == contains(text, FAILED_PREFIX) \/ contains(text, STOPPED_MARKER)

\* C10: no checkpoint line text and no leaf of the book contains a placeholder
\* marker of the client.
C10_NoPlaceholderMarkers ==
    /\ \A it \in DOMAIN checkpoint_data :
           \A key \in DOMAIN checkpoint_data[it].lines :
               ~HasMarker(checkpoint_data[it].lines[key].text)
    /\ \A it \in DOMAIN cp_file :
           \A key \in DOMAIN cp_file[it].lines :
               ~HasMarker(cp_file[it].lines[key].text)
    /\ \A p \in 1..Len(book) : \A q \in 1..Len(book[p]) : ~HasMarker(book[p][q].raw)

(***************************************************************************)
(* Properties of wait_for_response and of the request, checked under       *)
(* SpecClient.                                                             *)
(***************************************************************************)
InWait == cpc \in {"poll", "sample", "delay", "recovery"}

\* the samples of the wait so far are K new non-empty texts, one per cycle,
\* followed by held_run samples of one text (K = changes, counted up to
\* MaxChanges)
ChangesThenHolds == changes >= 0

StoppedCalls == {k \in 1..Len(calls) : calls[k].kind = "stopped"}

\* C11: when the client has returned the stop marker for a chunk of an item,
\* the records of that item (lines and completed flag, in memory and in the
\* file) stay what they were when the run began and the item's leaves are
\* not replaced, whatever the size of the cancelled chunk.
C11_CancelledStopsItem ==
    \A k \in StoppedCalls :
        LET it == calls[k].item
        IN /\ checkpoint_data[it] = loaded[it]
           /\ PersistedIdx(cp_file[it]) = PersistedIdx(loaded[it])
           /\ ~cp_file[it].completed
           /\ book[it + 1] = doc[it + 1]

\* the text nodes of an item all have the record Reconstruct looks up
AllLinesRecorded(it, store) ==
    \A idx \in 0..(Len(original_text_nodes(doc[it + 1])) - 1) :
        LookupKey(idx) \in DOMAIN store[it].lines

\* every translatable leaf of the item in the book is the replacement built
\* from its record
AllLeavesReplaced(it) ==
    LET pos == TextPositions(doc[it + 1])
    IN \A k \in 1..Len(pos) :
          /\ LookupKey(k - 1) \in DOMAIN checkpoint_data[it].lines
          /\ book[it + 1][pos[k]] =
                 ReplacedLeaf(doc[it + 1][pos[k]], checkpoint_data[it].lines[LookupKey(k - 1)])

\* C12: an item with translatable segments that this run has marked
\* completed has a record for every segment, every leaf replaced by its
\* recorded translation, and has been written to the temporary EPUB.
C12_ItemCompletion ==
    \A it \in DOMAIN checkpoint_data :
        (/\ checkpoint_data[it].completed
         /\ ~loaded[it].completed
         /\ original_text_nodes(doc[it + 1]) # <<>>)
            => /\ AllLinesRecorded(it, checkpoint_data)
               /\ AllLeavesReplaced(it)
               /\ temp_epub # NoFile \/ output_epub # NoFile

\* C13: a save_checkpoint call (one iteration of the loop of lines 226-230)
\* writes a line key that has no record yet, in the first run and in
\* resumed runs alike.
C13_RecordsAppendOnly ==
    [][new_idx' = new_idx + 1
          => SaveKey(j, untranslated_indices_map[new_idx + 1])
                 \notin DOMAIN checkpoint_data[i].lines]_vars

(***************************************************************************)
(* Failures that end the run, the run's outcome and the progress reports,  *)
(* under Spec.                                                             *)
(***************************************************************************)
AuthFailedCalls ==
    {k \in 1..Len(calls) : calls[k].kind = "failed" /\ calls[k].cause = "Login failed."}

\* C18: after a request has failed because ensure_login returned False, the
\* run submits no further request, records nothing for the item of that
\* chunk (no source text stored as its translation, no completed flag) and
\* does not end Completed.
C18_AuthFailureHalts ==
    \A k \in AuthFailedCalls :
        LET it == calls[k].item
        IN /\ k = Len(calls)
           /\ checkpoint_data[it] = loaded[it]
           /\ result # "True"

\* C19: a run ends with one of True, False or None, and a run in which the
\* client returned the stop marker for a chunk does not end Completed (True),
\* whichever item the chunk belongs to.
C19_OutcomeOnCancellation ==
    /\ pc = "done" => result \in {"True", "False", "None"}
    /\ (pc = "done" /\ StoppedCalls # {}) => result # "True"

\* C20: each time the run is at the head of the item loop, the progress
\* callback has been called once for every item before the current one, the
\* k-th call with (k / total) * 100.
C20_ProgressAfterEachItem ==
    pc = "item_loop"
        => /\ Len(progress) = i
           /\ \A k \in 1..Len(progress) : progress[k] = ProgressValue(k - 1)

(***************************************************************************)
(* Properties of one request of the client, under SpecClient.              *)
(***************************************************************************)
\* the request is inside the with block of line 329
InSession ==
    cpc \in {"attempt", "login", "cooldown", "cooldown_wait", "cooldown_sleep",
             "submit", "poll", "sample", "delay",
             "recovery", "after_wait", "handler", "backoff"}

\* C14: a request starts at most retry_attempts (3) attempts, writes at most
\* one payload per attempt started, hence at most 3, and resets the session
\* once between two attempts, hence at most twice.
C14_BoundedRetries ==
    /\ attempt <= retry_attempts - 1
    /\ submissions <= retry_attempts
    /\ submissions <= attempt + 1
    /\ resets <= retry_attempts - 1
    /\ resets = attempt

\* three attempts have failed after their payload was written, with two
\* resets between them, and the request has returned the failure marker
C14_Witness ==
    /\ cpc = "returned"
    /\ outcome.kind = "failed"
    /\ submissions = retry_attempts
    /\ resets = retry_attempts - 1

\* C15: a request that is over has returned one of Success (the text, or the
\* empty text of a blank chunk), Cancelled, QuotaExceeded or Failed; it has
\* not ended by an exception leaving the call.
C15_OutcomeTotality ==
    cpc \in {"returned", "raised"}
        => outcome.kind \in {"success", "blank", "stopped", "quota", "failed"}

\* C16: the first request and the second thread's request are never both
\* between acquiring and releasing processing_lock, and the lock is held
\* exactly while one of them is.
C16_SessionMutualExclusion ==
    /\ ~(InSession /\ other_pc = "locked")
    /\ processing_lock = "held" <=> (InSession \/ other_pc = "locked")

\* the second thread holds the lock while the first request, past its entry
\* checks, waits for it at line 329
C16_Witness ==
    /\ other_pc = "locked"
    /\ cpc = "lock"
    /\ processing_lock = "held"

\* C17: the step the client takes from the except clause for an exception
\* that mentions the usage limit is the return of the usage-limit marker: no
\* backoff, no reset, no new attempt, no payload; and the marker differs from
\* the values returned for Failed and Cancelled, the outcome is not Success.
C17_QuotaNonRetryable ==
    /\ [][(cpc = "handler" /\ IsUsageLimit(error) /\ cpc' # cpc)
             => /\ cpc' = "returned"
                /\ outcome' = [kind |-> "quota", text |-> USAGE_LIMIT_MARKER]
                /\ attempt' = attempt
                /\ resets' = resets
                /\ submissions' = submissions
                /\ is_logged_in' = is_logged_in]_vars
    /\ [](outcome.kind = "quota"
             => /\ cpc = "returned"
                /\ IsUsageLimit(error)
                /\ outcome.text # STOPPED_MARKER
                /\ outcome.text # FailedMarker(Payload(req_chunk, max_input_length)))

\* the second attempt of a request met the usage limit and the request
\* returned the usage-limit marker
C17_Witness ==
    /\ cpc = "returned"
    /\ outcome.kind = "quota"
    /\ attempt = 1
    /\ resets = 1

\* C21: the values passed to the progress callback in a run (fractions
\* num / den) are each greater than 0 and at most 100, and no value is
\* smaller than one passed before it.
C21_ProgressMonotone ==
    /\ \A k \in 1..Len(progress) :
           /\ progress[k].den > 0
           /\ progress[k].num > 0
           /\ progress[k].num <= 100 * progress[k].den
    /\ \A k \in 1..Len(progress) : \A l \in k..Len(progress) :
           progress[k].num * progress[l].den <= progress[l].num * progress[k].den

\* a run over a two-item document has reported 50 and then 100
C21_Witness ==
    /\ pc = "done"
    /\ Len(progress) = 2
    /\ progress[1].num * 2 = 100 * progress[1].den
    /\ progress[2].num = 100 * progress[2].den

(***************************************************************************)
(* C22  Whitespace round trip.                                             *)
(***************************************************************************)
\* the paragraph breaks (blank lines) of a text: the matches of \n\s*\n
ParagraphBreakCount(s) ==
    Len(SelectSeq(BreakMatches(s, 1), LAMBDA match : Len(match.group) >= 2))

\* C22: for every text and every non-blank translation of it, the text
\* reconstruct_whitespace makes from the normalised translation and the
\* text's whitespace information has, as its leading whitespace, exactly
\* the text's, as its trailing whitespace, exactly the text's, and as many
\* paragraph breaks as the text
C22_WhitespaceRoundTrip ==
    (ws_pc = "reconstructed" /\ normalized(ws_translated) # <<>>) =>
        /\ leading_spaces(ws_final_text) = leading_spaces(ws_text)
        /\ trailing_spaces(ws_final_text) = trailing_spaces(ws_text)
        /\ ParagraphBreakCount(ws_final_text) = ParagraphBreakCount(ws_text)

\* C22, the part that holds: the leading and the trailing whitespace
C22_LeadingTrailingRestored ==
    (ws_pc = "reconstructed" /\ normalized(ws_translated) # <<>>) =>
        /\ leading_spaces(ws_final_text) = leading_spaces(ws_text)
        /\ trailing_spaces(ws_final_text) = trailing_spaces(ws_text)

\* C22: line 41 never finds a paragraph break
C22_NoParagraphEverFound ==
    ws_pc # "start" =>
        /\ whitespace_info.has_paragraphs = FALSE
        /\ whitespace_info.paragraph_breaks = <<>>

(***************************************************************************)
(* C23  Checkpoint load.                                                   *)
(***************************************************************************)
\* the 0-based positional indices of all the text nodes of the current item
AllIndices == [k \in 1..Len(original_text_nodes(book[i + 1])) |-> k - 1]

\* the positions of translate_epub between the diff of an item (line 202)
\* and the end of the item's iteration
InItem == pc \in {"chunk_loop", "in_client", "align", "save", "reconstruct", "mark"}

\* C23: a run that starts when the checkpoint file is unparsable (or
\* missing) starts from the empty store without raising; in a run started
\* from the empty store, the store has nothing about an item when the item
\* is reached, and the diff of every item lists every line as missing
C23_CheckpointLoad ==
    /\ [][(run' = run + 1 /\ file_corrupt) =>
              /\ checkpoint_data' = EmptyStore(doc)
              /\ loaded' = EmptyStore(doc)
              /\ pc' = "start"
              /\ result' = "running"]_vars
    /\ []((loaded = EmptyStore(doc) /\ pc = "item_loop" /\ i < Len(doc)) =>
              checkpoint_data[i] = EmptyRecord)
    /\ []((loaded = EmptyStore(doc) /\ InItem) =>
              untranslated_indices_map = AllIndices)

\* a second run that found the file truncated, although lines had been
\* written to it, and has every line of a two-chunk item to translate
C23_Witness ==
    /\ run = 2
    /\ file_corrupt
    /\ cp_file # EmptyStore(doc)
    /\ loaded = EmptyStore(doc)
    /\ pc = "chunk_loop"
    /\ Len(untranslated_indices_map) >= 2
    /\ untranslated_indices_map = AllIndices

(***************************************************************************)
(* C24  Constant lineKey namespace.                                        *)
(***************************************************************************)
\* C24: every line of the store is under the key that Diff (line 198) and
\* Reconstruct (line 239) look up for the positional index of one of the
\* item's text nodes, whatever the number of chunks of the item
C24_ConstantLineKey ==
    \A it \in DOMAIN checkpoint_data :
        \A key \in DOMAIN checkpoint_data[it].lines :
            \E idx \in 0..(Len(original_text_nodes(doc[it + 1])) - 1) :
                key = LookupKey(idx)

(***************************************************************************)
(* C25  Per-chunk alignment.                                               *)
(***************************************************************************)
\* the calls made for the current item in this run
ItemCalls == {k \in 1..Len(calls) : calls[k].item = i}

\* C25: while the lines of an item are persisted (lines 226-230), every
\* translated chunk of the item has given as many results as segments were
\* joined into it
C25_PerChunkAlignment ==
    pc = "save" =>
        \A k \in ItemCalls : calls[k].parts = Cardinality(calls[k].idxs)

\* C25, what line 225 does check: the total of the results
C25_TotalAlignment ==
    pc = "save" => Len(newly_translated_lines) = Len(texts_to_translate)

(***************************************************************************)
(* C26  Resumed output is complete.                                        *)
(***************************************************************************)
\* every translatable leaf of the item in the final EPUB is the replacement
\* built from a record persisted for its index (under whatever chunk name)
RebuiltInOutput(it) ==
    LET pos == TextPositions(doc[it + 1])
    IN \A k \in 1..Len(pos) :
          \E key \in DOMAIN checkpoint_data[it].lines :
              /\ key[2] = k - 1
              /\ output_epub[it + 1][pos[k]] =
                     ReplacedLeaf(doc[it + 1][pos[k]], checkpoint_data[it].lines[key])

\* C26: when a resumed run has returned True, the final EPUB holds, for
\* every item marked completed in the store, the leaves rebuilt from the
\* persisted records
C26_ResumedOutputComplete ==
    (run > 1 /\ pc = "done" /\ result = "True") =>
        \A it \in DOMAIN checkpoint_data :
            checkpoint_data[it].completed => RebuiltInOutput(it)

\* C26, for the items completed in a prior run alone (skipped at lines
\* 170-173 in this one)
C26_SkippedItemsRebuilt ==
    (run > 1 /\ pc = "done" /\ result = "True") =>
        \A it \in DOMAIN loaded :
            loaded[it].completed => RebuiltInOutput(it)

(***************************************************************************)
(* Cancellation during the backoff, the session reset, the cooldown and    *)
(* the timeout of the wait, under SpecClient.                              *)
(***************************************************************************)
\* C27: when the stop flag is set while the request is in the backoff that
\* follows a failed attempt, the request leaves the backoff by returning
\* the stop marker, and the session is not reset
C27_CancellationDuringBackoff ==
    [][(cpc = "backoff" /\ stop_flag /\ cpc' # "backoff") =>
           /\ resets' = resets
           /\ cpc' = "returned"
           /\ outcome'.kind = "stopped"]_vars

\* C27, the part that holds: once the backoff and the reset are done, the
\* flag is read (line 332) before anything of the next attempt, and the
\* request returns the stop marker
C27_StoppedBeforeNextAttempt ==
    [][(cpc = "attempt" /\ attempt < retry_attempts /\ stop_flag /\ cpc' # "attempt") =>
           /\ cpc' = "returned"
           /\ outcome'.kind = "stopped"
           /\ submissions' = submissions
           /\ resets' = resets]_vars

\* C28: the request goes to its next attempt only through the session
\* reset, which leaves the authenticated state false; and a payload is
\* written only while the state is true, that is after ensure_login has
\* succeeded in that attempt
C28_ResetBetweenAttempts ==
    /\ [][attempt' # attempt =>
              /\ attempt' = attempt + 1
              /\ error # "none"
              /\ resets' = resets + 1
              /\ is_logged_in' = FALSE
              /\ cpc' = "attempt"]_vars
    /\ [][submissions' # submissions => (is_logged_in /\ is_logged_in')]_vars
    /\ []((cpc = "attempt" /\ attempt > 0) => ~is_logged_in)

\* the second attempt has written the payload, after a first attempt that
\* had written it too (logged in), failed and was followed by the reset
C28_Witness ==
    /\ attempt = 1
    /\ resets = 1
    /\ submissions = 2
    /\ cpc = "poll"
    /\ is_logged_in

\* the cooldown wait of lines 347-352: between two passes of the loop
InCooldownWait == cpc \in {"cooldown_wait", "cooldown_sleep"}

C29_WitnessSubmission ==
    /\ cpc = "poll"
    /\ attempt = 0
    /\ submissions = 1
    /\ since_last_used = 0
    /\ ~stop_flag

C30_WitnessNothingSampled ==
    /\ cpc = "backoff"
    /\ wait_exit = "timeout"
    /\ last_nonempty = NoSample
    /\ error = "Received an empty or invalid translation."
    /\ attempt = 0

(***************************************************************************)
(* The two replacement loops of epub_handler.py on the same nodes and the  *)
(* same records: the loop of translate_epub (lines 238-257) and            *)
(* reconstruct_html (lines 274-305).  A replaced node is written as a leaf *)
(* with its text and the element that holds it ("em" for a new em tag).    *)
(***************************************************************************)
\* the local variables of reconstruct_html before the first record is found
Unbound == [bound |-> FALSE, translated_text |-> <<>>, is_dialogue |-> FALSE]

\* lines 289-305: the node that replaces a leaf
HtmlReplacedLeaf(leaf, locals) ==
    LET leading_space == IF Len(leaf.raw) > 0 /\ leaf.raw[1] = " " THEN <<" ">> ELSE <<>>
        trailing_space == IF Len(leaf.raw) > 0 /\ leaf.raw[Len(leaf.raw)] = " " THEN <<" ">> ELSE <<>>
        final_text == leading_space \o locals.translated_text \o trailing_space
    IN IF leaf.parent \in {"em", "i"}
       THEN Leaf(final_text, leaf.parent)
       ELSE IF locals.is_dialogue
            THEN Leaf(final_text, "em")
            ELSE Leaf(final_text, leaf.parent)

\* lines 279-305: the loop from node idx (0-based) on; translated_text and
\* is_dialogue are assigned only inside the `if` of line 282 and keep the
\* values of an earlier iteration otherwise; reading them before any
\* assignment raises UnboundLocalError at line 292
RECURSIVE reconstruct_html_from(_, _, _, _, _)
reconstruct_html_from(all_nodes, translated_data, idx, locals, done) ==
    IF idx >= Len(all_nodes)
    THEN [raised |-> FALSE, nodes |-> done]
    ELSE LET line_key == LookupKey(idx)
             now == IF line_key \in DOMAIN translated_data
                    THEN [bound |-> TRUE,
                          translated_text |-> translated_data[line_key].text,
                          is_dialogue |-> translated_data[line_key].is_dialogue]
                    ELSE locals
         IN IF ~now.bound
            THEN [raised |-> TRUE,
                  nodes |-> done \o SubSeq(all_nodes, idx + 1, Len(all_nodes))]
            ELSE reconstruct_html_from(all_nodes, translated_data, idx + 1, now,
                                       Append(done, HtmlReplacedLeaf(all_nodes[idx + 1], now)))

reconstruct_html(all_nodes, translated_data) ==
    reconstruct_html_from(all_nodes, translated_data, 0, Unbound, <<>>)

MaxNodes == 2
LeafTexts == {<<"a">>, <<" ", "a">>}
ParentKinds == {"p", "em", "i", "div"}
TestLeaves == {Leaf(t, parent) : t \in LeafTexts, parent \in ParentKinds}
\* translations: one that opens with a quotation mark, one that does not
TranslatedTexts == {<<"\"", "B">>, <<"B">>}
\* line 229
LineData == {[text |-> t, is_dialogue |-> IsDialogue(t)] : t \in TranslatedTexts}
\* the records of some of the nodes, keyed as lines 198, 239 and 280 read them
RecordsOf(n) ==
    UNION {[{LookupKey(k) : k \in have} -> LineData] : have \in SUBSET (0..(n - 1))}

InitLeaf ==
    /\ InitOrch
    /\ doc = DocTwo
    /\ ClientIdle
    /\ WhitespaceIdle
    /\ \E n \in 1..MaxNodes :
          call_args \in [all_nodes : [1..n -> TestLeaves], translated_data : RecordsOf(n)]
    /\ call_pc = "start"
    /\ call_value = <<>>

\* lines 236-257
InlineReplacement ==
    /\ call_pc = "start"
    /\ call_value' = [inline |-> Reconstructed(call_args.all_nodes, call_args.translated_data)]
    /\ call_pc' = "inline"
    /\ UNCHANGED <<callFrame, call_args>>

\* lines 274-305, on the nodes as they were before the inline loop
ReconstructHtml ==
    /\ call_pc = "inline"
    /\ call_value' = [inline |-> call_value.inline,
                      html |-> reconstruct_html(call_args.all_nodes,
                                                call_args.translated_data)]
    /\ call_pc' = "both"
    /\ UNCHANGED <<callFrame, call_args>>

NextLeaf == InlineReplacement \/ ReconstructHtml

SpecLeaf == InitLeaf /\ [][NextLeaf]_vars

(***************************************************************************)
(* The chunker, under SpecChunker.                                         *)
(***************************************************************************)
\* the lists joined into the chunks of the call
CallGroups == ChunkGroups(call_args.text_list, call_args.max_chars)

RECURSIVE GreedyGroups(_, _, _, _)
GreedyGroups(text_list, max_chars, from, current) ==
    IF from > Len(text_list)
    THEN IF current = <<>> THEN <<>> ELSE <<current>>
    ELSE IF /\ current # <<>>
            /\ Len(join(TEXT_DELIMITER, Append(current, text_list[from]))) > max_chars
         THEN <<current>> \o GreedyGroups(text_list, max_chars, from + 1, <<text_list[from]>>)
         ELSE GreedyGroups(text_list, max_chars, from + 1, Append(current, text_list[from]))

\* C32: the batches of intelligent_chunk_text are those of greedy packing
\* with the same threshold for the first batch and for every later batch,
\* and so the number of chunks is that of greedy packing
C32_GreedyPacking ==
    call_pc # "start" =>
        /\ CallGroups = GreedyGroups(call_args.text_list, call_args.max_chars, 1, <<>>)
        /\ Len(call_value.text_chunks) =
               Len(GreedyGroups(call_args.text_list, call_args.max_chars, 1, <<>>))

\* the groups of consecutive elements of list cut after the positions of cuts
RECURSIVE CutGroups(_, _, _)
CutGroups(list, cuts, from) ==
    IF from > Len(list)
    THEN <<>>
    ELSE LET later == {c \in cuts : c >= from}
             last == IF later = {} THEN Len(list) ELSE SetMin(later)
         IN <<SubSeq(list, from, last)>> \o CutGroups(list, cuts, last + 1)

\* the ways of cutting list into non-empty groups of consecutive elements
PartitionsInOrder(list) ==
    {CutGroups(list, cuts, 1) : cuts \in SUBSET (1..(Len(list) - 1))}

\* C33: the returned chunks are the serializations of a cutting of the input
\* list into non-empty groups of consecutive segments (every segment in one
\* chunk, in the original order); no chunk is empty; the empty list gives no
\* chunk
C33_ChunkerPartition ==
    call_pc # "start" =>
        /\ \E groups \in PartitionsInOrder(call_args.text_list) :
               /\ \A k \in 1..Len(groups) : groups[k] # <<>>
               /\ call_value.text_chunks =
                      [k \in 1..Len(groups) |-> join(TEXT_DELIMITER, groups[k])]
        /\ \A k \in 1..Len(call_value.text_chunks) : call_value.text_chunks[k] # <<>>
        /\ call_args.text_list = <<>> => call_value.text_chunks = <<>>

\* three segments returned in two chunks, the first of two segments
C33_Witness ==
    /\ call_pc = "chunked"
    /\ Len(call_args.text_list) = 3
    /\ Len(call_value.text_chunks) = 2
    /\ call_value.text_chunks[1] =
           join(TEXT_DELIMITER, SubSeq(call_args.text_list, 1, 2))
    /\ call_value.text_chunks[2] = call_args.text_list[3]

\* the empty list has been chunked
C33_WitnessEmpty ==
    /\ call_pc = "chunked"
    /\ call_args.text_list = <<>>
    /\ call_value.text_chunks = <<>>

(***************************************************************************)
(* The order of the items, under Spec.                                     *)
(***************************************************************************)
\* a step inside one run of translate_epub
StepOfRun == pc # "start" /\ pc' \notin {"start", "crashed"}

\* item n of the run is resolved: marked completed (lines 173, 188, 265) or
\* given up at the alignment check (line 233)
Resolved(n) == IsCompleted(checkpoint_data[n]) \/ n \in align_failed

\* C34: inside a run the item index only moves to the next item; the record
\* of an item is written only while it is the current item and no request
\* of a later item has been made; a request is made for the current item
\* only, when every earlier item is resolved; the index moves on from the
\* item loop (completed or empty item), from the alignment failure or from
\* the completed mark, which is reached only through the reconstruction of
\* the item's tree; the requests are in the order of the items
C34_SequentialItems ==
    /\ [][StepOfRun =>
            /\ i' \in {i, i + 1}
            /\ \A n \in 0..(Len(doc) - 1) :
                   checkpoint_data'[n] # checkpoint_data[n] =>
                       /\ n = i
                       /\ \A c \in 1..Len(calls) : calls[c].item <= n
            /\ Len(calls') > Len(calls) =>
                   /\ calls'[Len(calls')].item = i
                   /\ \A n \in 0..(i - 1) : Resolved(n)
            /\ i' = i + 1 => pc \in {"item_loop", "mark", "align"}
            /\ (pc' = "mark" /\ pc # "mark") =>
                   /\ pc = "reconstruct"
                   /\ book'[i + 1] = Reconstructed(book[i + 1], checkpoint_data[i].lines)]_vars
    /\ [](\A a, b \in 1..Len(calls) : a < b => calls[a].item <= calls[b].item)

\* a request of the second item has been made after the first item was
\* translated, persisted and marked completed
C34_Witness ==
    /\ Len(calls) >= 2
    /\ calls[1].item = 0
    /\ calls[Len(calls)].item = 1
    /\ IsCompleted(checkpoint_data[0])
    /\ checkpoint_data[0].lines # EmptyRecord.lines

(***************************************************************************)
(* Failed checkpoint writes, under Spec.                                   *)
(***************************************************************************)
\* the lines of the current item translated in this run are in the store
\* that the replacement loop reads (line 236), under the key they were
\* saved with
RunLinesInStore ==
    \A k \in 1..Len(newly_translated_lines) :
        LET key == SaveKey(j, untranslated_indices_map[k])
        IN /\ key \in DOMAIN checkpoint_data[i].lines
           /\ checkpoint_data[i].lines[key].text = newly_translated_lines[k]

C36_LeafReplacementRule ==
    call_pc = "both" =>
        /\ \A k \in 1..Len(call_args.all_nodes) :
               LET leaf == call_args.all_nodes[k]
                   new == call_value.inline[k]
                   key == LookupKey(k - 1)
               IN IF key \in DOMAIN call_args.translated_data
                  THEN LET line_data == call_args.translated_data[key]
                       IN /\ line_data.is_dialogue <=>
                                 (strip(line_data.text) # <<>>
                                  /\ strip(line_data.text)[1] \in QuoteChars)
                          /\ new.parent = IF line_data.is_dialogue /\ leaf.parent = "p"
                                          THEN "em" ELSE leaf.parent
                          /\ strip(new.raw) = strip(line_data.text)
                  ELSE new = leaf
        /\ ~call_value.html.raised
        /\ call_value.html.nodes = call_value.inline

(***************************************************************************)
(* Break classification, under SpecWhitespace.                             *)
(***************************************************************************)
\* C37: extract_whitespace_info records one break per newline run of the
\* text, of type paragraph when the run is a blank line (two newlines with
\* only whitespace between them) and of type line when it is one newline;
\* has_paragraphs is true exactly when the text has a blank line
C37_BreakClassification ==
    ws_pc # "start" =>
        LET runs == BreakMatches(ws_text, 1)
        IN /\ Len(whitespace_info.breaks) = Len(runs)
           /\ \A k \in 1..Len(runs) :
                  whitespace_info.breaks[k].type =
                      IF Len(runs[k].group) >= 2 THEN "paragraph" ELSE "line"
           /\ whitespace_info.has_paragraphs <=> ParagraphBreakCount(ws_text) > 0

\* C37, the part that holds: one break per newline run
C37_OneBreakPerNewlineRun ==
    ws_pc # "start" =>
        Len(whitespace_info.breaks) = Len(BreakMatches(ws_text, 1))

(***************************************************************************)
(* The request client, under SpecClient.                                   *)
(***************************************************************************)
\* C39: the step a request takes from its entry when the stop flag is set
\* is the return of the stop marker; it leaves the lock, the authenticated
\* state, the time of last use, the text in the input, the counts of payload
\* writes and of resets, and the state of the wait as they were
C39_CancelledBeforeStart ==
    [][(cpc = "entry" /\ stop_flag /\ cpc' # cpc) =>
          /\ cpc' = "returned"
          /\ outcome' = [kind |-> "stopped", text |-> STOPPED_MARKER]
          /\ UNCHANGED <<processing_lock, is_logged_in, since_last_used, written,
                         submissions, resets, attempt, waitVars, waitHistory,
                         response, error>>]_vars

\* a request invoked with the flag set has returned the stop marker while
\* the other thread holds the lock
C39_Witness ==
    /\ cpc = "returned"
    /\ outcome.kind = "stopped"
    /\ submissions = 0
    /\ attempt = 0
    /\ processing_lock = "held"
    /\ strip(req_chunk) # <<>>

\* C40: the text written to the input is never longer than max_input_length
C40_PayloadLengthBound ==
    /\ Len(written) <= max_input_length
    /\ written # <<>> => written = SubSeq(req_chunk, 1, Len(written))

\* a chunk of 80 characters was written with max_input_length = 12: the
\* input holds its first 12 characters
C40_Witness ==
    /\ submissions > 0
    /\ Len(req_chunk) > max_input_length
    /\ Len(written) = max_input_length

(***************************************************************************)
(* Termination of a request.  The thread of the request is scheduled       *)
(* fairly: a step of it that stays possible is taken.  The lock is handed  *)
(* over fairly (a request that asks for it again and again while it is     *)
(* released again and again gets it), and the other thread's request       *)
(* leaves the with block.  The stop request is not forced.                 *)
(***************************************************************************)
RequestStep ==
    \/ Entry \/ AttemptStart \/ Login \/ Cooldown \/ CooldownCheck \/ CooldownSleep
    \/ Submit \/ PollCycleStart \/ SampleText \/ SampleRaises \/ PollDelay
    \/ RecoveryDelay \/ AfterWait \/ Handler \/ Backoff

SpecClientFair ==
    /\ SpecClient
    /\ WF_vars(RequestStep)
    /\ SF_vars(AcquireLock)
    /\ WF_vars(OtherRelease)

\* C38: every request eventually returns an outcome, and whenever it has
\* returned the lock is free, or held by the other thread's request
C38_RequestTermination ==
    /\ <>(cpc = "returned")
    /\ [](cpc = "returned" => (processing_lock = "free" \/ other_pc = "locked"))

\* C38, the part that holds: every request eventually ends, by a return or
\* by the exception raised in the backoff, and when it has ended the lock
\* is free, or held by the other thread's request
C38_RequestEnds ==
    /\ <>(cpc \in {"returned", "raised"})
    /\ [](cpc \in {"returned", "raised"} =>
              (processing_lock = "free" \/ other_pc = "locked"))

====
